---- MODULE Spec2Model ----
(***************************************************************************)
(* S3 cost analyzer (src/python/s3/s3_cost_analyzer.py) as a state         *)
(* machine: main's loop over the requested buckets, the object scan of    *)
(* analyze_bucket_objects, the upload scan of analyze_multipart_uploads   *)
(* and the reduction of generate_report.                                   *)
(*                                                                         *)
(* Units.  Time is in seconds.  Prices are in 1/100000 USD per GB-month.   *)
(* size_gb = size / 1024**3 is a division by a power of two, exact in      *)
(* binary floating point, so every size_gb is held as its numerator over   *)
(* the fixed denominator 1024**3 (a byte count); a saving size_gb * price  *)
(* difference is held on the same denominator.                             *)
(***************************************************************************)
EXTENDS Integers, Sequences, FiniteSets, TLC

VARIABLES
    pc,                 \* position of main / of the running call
    buckets,            \* main: the bucket list being analyzed
    config,             \* the thresholds the caller wants for this run
    s3_calls,           \* the S3 operations the run has issued so far
    days_threshold,     \* args.days_threshold
    multipart_days,     \* args.multipart_days
    bi,                 \* main: index of the bucket of the current iteration
    clock,              \* the wall clock datetime.now() reads
    now,                \* the `now` local of the running call
    listed,             \* objects bucket.objects.all() has yielded in this scan
    analysis,           \* the `analysis` dict of the running analyze_bucket_objects
    uploads_seen,       \* uploads the paginator has yielded in this scan
    multipart_analysis, \* the `multipart_analysis` dict of the running call
    bucket_analyses,    \* main: list of returned analyses
    multipart_analyses, \* main: list of returned multipart analyses
    report,             \* what generate_report wrote (summary and BUCKET entries)
    functions,          \* analyze_lambda_runtimes: what get_all_lambda_functions returned
    check_compatibility, \* analyze_lambda_runtimes: its parameter
    idx,                \* analyze_lambda_runtimes: functions handled by the loop so far
    stats,              \* analyze_lambda_runtimes: the statistics dict
    runtime_counts,     \* analyze_lambda_runtimes: functions per runtime
    results,            \* analyze_lambda_runtimes: the rows of the report
    instances_to_process, \* ec2_migration main: the instances to process
    ii,                 \* ec2_migration main: instances the loop has taken so far
    new_type,           \* process_instance: the type to change to, or None
    vi,                 \* convert_volumes_to_gp3: volumes the loop has taken so far
    ec2_calls,          \* the EC2 calls issued so far, each with its outcome
    processed,          \* what process_instance returned, per instance
    success_count,      \* ec2_migration main: its counter
    instance_type,      \* suggest_rightsize: its parameter
    cpu_avg,            \* suggest_rightsize: its parameter, in hundredths of a percent
    suggestion          \* suggest_rightsize: what it returned

\* the state of s3_cost_analyzer.py but its position
s3Vars == <<buckets, config, s3_calls, days_threshold, multipart_days, bi, clock, now, listed,
            analysis, uploads_seen, multipart_analysis, bucket_analyses,
            multipart_analyses, report>>

\* the state of lambda_runtime_analyzer.py
lambdaVars == <<functions, check_compatibility, idx, stats, runtime_counts, results>>

\* the state of ec2_migration.py
migrationVars == <<instances_to_process, ii, new_type, vi, ec2_calls, processed,
                   success_count>>

\* the state of ec2_rightsize.py
rightsizeVars == <<instance_type, cpu_avg, suggestion>>

\* the state of the programs other than s3_cost_analyzer.py
otherPrograms == <<lambdaVars, migrationVars, rightsizeVars>>

vars == <<pc, s3Vars, otherPrograms>>

----------------------------------------------------------------------------
(* Bounds of the model *)

MaxBuckets == 2
MaxObjects == 2
MaxUploads == 1
MaxScanObjects == 1
MaxScanUploads == 2
MaxPrefixObjects == 2
MaxPureObjects == 2
MaxFunctions == 2
MaxInstances == 2

----------------------------------------------------------------------------
(* Program constants *)

Day == 24 * 3600
GiB == 1024 * 1024 * 1024

IaAgeDays == 30
GlacierAgeDays == 180
IaMinSizeBytes == 128 * 1024
DefaultDaysThreshold == 90
DefaultMultipartDays == 7

pricing ==
    [ STANDARD            |-> 2300,
      INTELLIGENT_TIERING |-> 2300,
      STANDARD_IA         |-> 1250,
      ONEZONE_IA          |-> 1000,
      GLACIER_IR          |-> 400,
      GLACIER             |-> 360,
      DEEP_ARCHIVE        |-> 99 ]

\* bug: a class missing from the table is priced 0
PricingGet_ZeroDefault(storage_class, default) ==
    IF storage_class \in DOMAIN pricing THEN pricing[storage_class] ELSE 0

\* dict.get(storage_class, default)
PricingGet(storage_class, default) ==
    IF storage_class \in DOMAIN pricing THEN pricing[storage_class] ELSE default

NoError == "<no error key>"
None == "<none>"

----------------------------------------------------------------------------
(* Helpers on sequences and maps *)

\* sum(...) over a list of numbers
RECURSIVE SumSeq(_)
SumSeq(s) ==
    IF s = <<>> THEN 0 ELSE Head(s) + SumSeq(Tail(s))

\* sum(...) over the values of a dict of numbers
RECURSIVE SumMap(_)
SumMap(m) ==
    IF DOMAIN m = {} THEN 0
    ELSE LET k == CHOOSE x \in DOMAIN m : TRUE
         IN  m[k] + SumMap([y \in DOMAIN m \ {k} |-> m[y]])

EmptyMap == [x \in {} |-> 0]

\* bug: an existing entry is replaced instead of updated
Accumulate_Overwrites(m, k, size_gb) ==
    [x \in DOMAIN m \cup {k} |->
        IF x = k THEN [count |-> 1, size_gb |-> size_gb] ELSE m[x]]

\* defaultdict(lambda: {'count': 0, 'size_gb': 0}): m[k]['count'] += 1; m[k]['size_gb'] += size_gb
Accumulate(m, k, size_gb) ==
    LET old == IF k \in DOMAIN m THEN m[k] ELSE [count |-> 0, size_gb |-> 0]
    IN  [x \in DOMAIN m \cup {k} |->
            IF x = k THEN [count |-> old.count + 1, size_gb |-> old.size_gb + size_gb]
            ELSE m[x]]

----------------------------------------------------------------------------
(* Keys are strings, held as sequences of one-character strings *)

Slash == "/"
Root == <<"r", "o", "o", "t">>

\* str.split('/')
RECURSIVE Split(_)
Split(key) ==
    IF \A i \in 1..Len(key) : key[i] # Slash THEN <<key>>
    ELSE LET i == CHOOSE j \in 1..Len(key) :
                     key[j] = Slash /\ \A h \in 1..(j - 1) : key[h] # Slash
         IN  <<SubSeq(key, 1, i - 1)>> \o Split(SubSeq(key, i + 1, Len(key)))

\* '/'.join(parts)
RECURSIVE Join(_)
Join(parts) ==
    IF parts = <<>> THEN <<>>
    ELSE IF Len(parts) = 1 THEN parts[1]
    ELSE parts[1] \o <<Slash>> \o Join(Tail(parts))

\* bug: the `else 'root'` is left out, split and join alone
Prefix_NoRoot(key) ==
    LET parts == Split(key) IN Join(SubSeq(parts, 1, Len(parts) - 1))

\* bug: obj.key.split('/')[0], the top-level segment
Prefix_TopLevel(key) ==
    IF \E i \in 1..Len(key) : key[i] = Slash
    THEN Split(key)[1]
    ELSE Root

\* '/'.join(obj.key.split('/')[:-1]) if '/' in obj.key else 'root'
Prefix(key) ==
    IF \E i \in 1..Len(key) : key[i] = Slash
    THEN LET parts == Split(key) IN Join(SubSeq(parts, 1, Len(parts) - 1))
    ELSE Root

----------------------------------------------------------------------------
(* analyze_bucket_objects: the per-object rules *)

\* bug: obj.storage_class is used as it comes
StorageClassOf_KeepsMissing(obj) == obj.storage_class

\* storage_class = obj.storage_class if obj.storage_class else 'STANDARD'
StorageClassOf(obj) ==
    IF obj.storage_class \in {None, ""} THEN "STANDARD" ELSE obj.storage_class

\* size_gb = obj.size / (1024**3), on the denominator 1024**3
SizeGb(size) == size

\* timedelta.days of (n - t): whole days, rounded down
AgeDays(n, t) == (n - t) \div Day

\* bug: <= instead of <
IsOld_Inclusive(obj, n, threshold) ==
    obj.last_modified <= n - threshold * Day

\* obj.last_modified < threshold_date, threshold_date = now - timedelta(days=days_threshold)
IsOld(obj, n, threshold) ==
    obj.last_modified < n - threshold * Day

\* bug: the class test of the Glacier rule is used for the IA rule
IsIaCandidate_AlsoIa(obj, n) ==
    /\ StorageClassOf(obj) \in {"STANDARD", "STANDARD_IA"}
    /\ obj.last_modified < n - IaAgeDays * Day
    /\ obj.size > IaMinSizeBytes

\* bug: >= instead of > on the size
IsIaCandidate_SizeInclusive(obj, n) ==
    /\ StorageClassOf(obj) = "STANDARD"
    /\ obj.last_modified < n - IaAgeDays * Day
    /\ obj.size >= IaMinSizeBytes

\* storage_class == 'STANDARD' and obj.last_modified < ia_threshold and obj.size > 128 * 1024
IsIaCandidate(obj, n) ==
    /\ StorageClassOf(obj) = "STANDARD"
    /\ obj.last_modified < n - IaAgeDays * Day
    /\ obj.size > IaMinSizeBytes

\* bug: the storage class test is dropped
IsGlacierCandidate_AnyClass(obj, n) ==
    obj.last_modified < n - GlacierAgeDays * Day

\* storage_class in ['STANDARD', 'STANDARD_IA'] and obj.last_modified < glacier_threshold
IsGlacierCandidate(obj, n) ==
    /\ StorageClassOf(obj) \in {"STANDARD", "STANDARD_IA"}
    /\ obj.last_modified < n - GlacierAgeDays * Day

\* size_gb * (self.pricing['STANDARD'] - self.pricing['STANDARD_IA'])
IaSavings(obj) ==
    SizeGb(obj.size) * (pricing["STANDARD"] - pricing["STANDARD_IA"])

\* bug: the current cost is always the STANDARD price
GlacierSavings_StandardPrice(obj) ==
    SizeGb(obj.size) * (pricing["STANDARD"] - pricing["GLACIER"])

\* current_cost = self.pricing.get(storage_class, self.pricing['STANDARD'])
\* size_gb * (current_cost - self.pricing['GLACIER'])
GlacierSavings(obj) ==
    LET current_cost == PricingGet(StorageClassOf(obj), pricing["STANDARD"])
    IN  SizeGb(obj.size) * (current_cost - pricing["GLACIER"])

OldEntry(obj, n) ==
    [ key           |-> obj.key,
      size_gb       |-> SizeGb(obj.size),
      last_modified |-> obj.last_modified,
      storage_class |-> StorageClassOf(obj),
      age_days      |-> AgeDays(n, obj.last_modified) ]

IaEntry(obj, n) ==
    [ key           |-> obj.key,
      size_gb       |-> SizeGb(obj.size),
      last_modified |-> obj.last_modified,
      age_days      |-> AgeDays(n, obj.last_modified),
      potential_savings_monthly |-> IaSavings(obj) ]

GlacierEntry(obj, n) ==
    [ key           |-> obj.key,
      size_gb       |-> SizeGb(obj.size),
      last_modified |-> obj.last_modified,
      age_days      |-> AgeDays(n, obj.last_modified),
      current_storage_class     |-> StorageClassOf(obj),
      potential_savings_monthly |-> GlacierSavings(obj) ]

\* the analysis dict as created before the scan
NewAnalysis(bucket_name) ==
    [ bucket_name            |-> bucket_name,
      total_objects          |-> 0,
      total_size_gb          |-> 0,
      by_storage_class       |-> EmptyMap,
      old_objects            |-> <<>>,
      candidates_for_ia      |-> <<>>,
      candidates_for_glacier |-> <<>>,
      by_prefix              |-> EmptyMap,
      error                  |-> NoError ]

\* bug: the three rules chained with elif, the first that applies wins
AddObject_ElseIf(a, obj, n, threshold) ==
    [ a EXCEPT
        !.total_objects    = @ + 1,
        !.total_size_gb    = @ + SizeGb(obj.size),
        !.by_storage_class = Accumulate(@, StorageClassOf(obj), SizeGb(obj.size)),
        !.by_prefix        = Accumulate(@, Prefix(obj.key), SizeGb(obj.size)),
        !.old_objects      =
            IF IsOld(obj, n, threshold) THEN Append(@, OldEntry(obj, n)) ELSE @,
        !.candidates_for_ia =
            IF ~IsOld(obj, n, threshold) /\ IsIaCandidate(obj, n)
            THEN Append(@, IaEntry(obj, n)) ELSE @,
        !.candidates_for_glacier =
            IF ~IsOld(obj, n, threshold) /\ ~IsIaCandidate(obj, n)
               /\ IsGlacierCandidate(obj, n)
            THEN Append(@, GlacierEntry(obj, n)) ELSE @ ]

\* one iteration of `for obj in bucket.objects.all()`
AddObject(a, obj, n, threshold) ==
    [ a EXCEPT
        !.total_objects    = @ + 1,
        !.total_size_gb    = @ + SizeGb(obj.size),
        !.by_storage_class = Accumulate(@, StorageClassOf(obj), SizeGb(obj.size)),
        !.by_prefix        = Accumulate(@, Prefix(obj.key), SizeGb(obj.size)),
        !.old_objects      =
            IF IsOld(obj, n, threshold) THEN Append(@, OldEntry(obj, n)) ELSE @,
        !.candidates_for_ia =
            IF IsIaCandidate(obj, n) THEN Append(@, IaEntry(obj, n)) ELSE @,
        !.candidates_for_glacier =
            IF IsGlacierCandidate(obj, n) THEN Append(@, GlacierEntry(obj, n)) ELSE @ ]

----------------------------------------------------------------------------
(* analyze_multipart_uploads: the per-upload rule *)

PartsError == "ClientError"

NewMultipartAnalysis(bucket_name) ==
    [ bucket_name          |-> bucket_name,
      total_uploads        |-> 0,
      old_uploads          |-> <<>>,
      estimated_storage_gb |-> 0,
      error                |-> NoError ]

UploadEntry(upload, n, size_gb) ==
    [ key       |-> upload.key,
      upload_id |-> upload.upload_id,
      initiated |-> upload.initiated,
      age_days  |-> AgeDays(n, upload.initiated),
      size_gb   |-> size_gb ]

\* bug: <= instead of < on the age
AddUpload_Inclusive(m, upload, parts, n, threshold) ==
    LET counted == [m EXCEPT !.total_uploads = @ + 1]
    IN  IF ~(upload.initiated <= n - threshold * Day) THEN counted
        ELSE IF parts = PartsError
             THEN [counted EXCEPT !.old_uploads = Append(@, UploadEntry(upload, n, 0))]
             ELSE [counted EXCEPT
                     !.old_uploads = Append(@, UploadEntry(upload, n, SizeGb(SumSeq(parts)))),
                     !.estimated_storage_gb = @ + SizeGb(SumSeq(parts))]

\* bug: an upload whose parts cannot be listed is dropped
AddUpload_DropsUnsized(m, upload, parts, n, threshold) ==
    LET counted == [m EXCEPT !.total_uploads = @ + 1]
    IN  IF ~(upload.initiated < n - threshold * Day) THEN counted
        ELSE IF parts = PartsError
             THEN counted
             ELSE [counted EXCEPT
                     !.old_uploads = Append(@, UploadEntry(upload, n, SizeGb(SumSeq(parts)))),
                     !.estimated_storage_gb = @ + SizeGb(SumSeq(parts))]

\* bug: the parts of an upload that is not old are added to the estimate too
AddUpload_EstimatesFresh(m, upload, parts, n, threshold) ==
    LET counted == [m EXCEPT !.total_uploads = @ + 1]
    IN  IF ~(upload.initiated < n - threshold * Day)
        THEN IF parts = PartsError THEN counted
             ELSE [counted EXCEPT !.estimated_storage_gb = @ + SizeGb(SumSeq(parts))]
        ELSE IF parts = PartsError
             THEN [counted EXCEPT !.old_uploads = Append(@, UploadEntry(upload, n, 0))]
             ELSE [counted EXCEPT
                     !.old_uploads = Append(@, UploadEntry(upload, n, SizeGb(SumSeq(parts)))),
                     !.estimated_storage_gb = @ + SizeGb(SumSeq(parts))]

\* one iteration of `for upload in page['Uploads']`; parts is what list_parts
\* answers: the part sizes, or PartsError when it raises ClientError
AddUpload(m, upload, parts, n, threshold) ==
    LET counted == [m EXCEPT !.total_uploads = @ + 1]
    IN  IF ~(upload.initiated < n - threshold * Day) THEN counted
        ELSE IF parts = PartsError
             THEN [counted EXCEPT !.old_uploads = Append(@, UploadEntry(upload, n, 0))]
             ELSE [counted EXCEPT
                     !.old_uploads = Append(@, UploadEntry(upload, n, SizeGb(SumSeq(parts)))),
                     !.estimated_storage_gb = @ + SizeGb(SumSeq(parts))]

\* bug: a stale upload is aborted once it is sized
CallsOfUpload_AbortsOld(upload, n, threshold) ==
    IF upload.initiated < n - threshold * Day
    THEN {"ListParts", "AbortMultipartUpload"}
    ELSE {}

\* the S3 operations of one iteration: list_parts for an old upload
CallsOfUpload(upload, n, threshold) ==
    IF upload.initiated < n - threshold * Day THEN {"ListParts"} ELSE {}

----------------------------------------------------------------------------
(* generate_report: the summary and the per-bucket sections *)

NoReport == "<no report>"

Savings(candidates) ==
    SumSeq([i \in 1..Len(candidates) |-> candidates[i].potential_savings_monthly])

\* monthly_cost = mp_analysis['estimated_storage_gb'] * self.pricing['STANDARD']
MultipartMonthlyCost(m) ==
    m.estimated_storage_gb * pricing["STANDARD"]

BucketEntry(a) ==
    [ bucket_name |-> a.bucket_name, error |-> a.error ]

\* the literal 0.023 of self.pricing.get(storage_class, 0.023)
ReportDefaultPrice == 2300

\* monthly_cost = data['size_gb'] * self.pricing.get(storage_class, 0.023)
MonthlyCost(storage_class, data) ==
    data.size_gb * PricingGet(storage_class, ReportDefaultPrice)

\* STORAGE CLASS DISTRIBUTION of one bucket; an analysis with an error has none
ClassCosts(a) ==
    IF a.error # NoError THEN EmptyMap
    ELSE [c \in DOMAIN a.by_storage_class |-> MonthlyCost(c, a.by_storage_class[c])]

\* bug: the analyses that failed are left out of the report
MakeReport_SkipsErrored(b_analyses, m_analyses) ==
    LET ok == SelectSeq(b_analyses, LAMBDA a : a.error = NoError)
    IN  [ summary |->
            [ total_buckets |-> Len(ok),
              total_objects |-> SumSeq([i \in 1..Len(ok) |-> ok[i].total_objects]),
              total_size_gb |-> SumSeq([i \in 1..Len(ok) |-> ok[i].total_size_gb]),
              potential_ia_savings_monthly |->
                  SumSeq([i \in 1..Len(ok) |-> Savings(ok[i].candidates_for_ia)]),
              potential_glacier_savings_monthly |->
                  SumSeq([i \in 1..Len(ok) |-> Savings(ok[i].candidates_for_glacier)]),
              multipart_storage_gb |->
                  SumSeq([i \in 1..Len(m_analyses) |-> m_analyses[i].estimated_storage_gb]) ],
          bucket_entries    |-> [i \in 1..Len(ok) |-> BucketEntry(ok[i])],
          storage_class_costs |-> [i \in 1..Len(ok) |-> ClassCosts(ok[i])],
          multipart_entries |-> [i \in 1..Len(m_analyses) |-> BucketEntry(m_analyses[i])] ]

MakeReport(b_analyses, m_analyses) ==
    [ summary |->
        [ total_buckets |-> Len(b_analyses),
          total_objects |->
              SumSeq([i \in 1..Len(b_analyses) |-> b_analyses[i].total_objects]),
          total_size_gb |->
              SumSeq([i \in 1..Len(b_analyses) |-> b_analyses[i].total_size_gb]),
          potential_ia_savings_monthly |->
              SumSeq([i \in 1..Len(b_analyses) |->
                         Savings(b_analyses[i].candidates_for_ia)]),
          potential_glacier_savings_monthly |->
              SumSeq([i \in 1..Len(b_analyses) |->
                         Savings(b_analyses[i].candidates_for_glacier)]),
          multipart_storage_gb |->
              SumSeq([i \in 1..Len(m_analyses) |-> m_analyses[i].estimated_storage_gb]) ],
      bucket_entries    |-> [i \in 1..Len(b_analyses) |-> BucketEntry(b_analyses[i])],
      storage_class_costs |-> [i \in 1..Len(b_analyses) |-> ClassCosts(b_analyses[i])],
      multipart_entries |-> [i \in 1..Len(m_analyses) |-> BucketEntry(m_analyses[i])] ]

----------------------------------------------------------------------------
(* The environment: what the listings can yield *)

Now0 == 400 * Day

\* bucket names are labels the code never inspects: one list per length
BucketNames == <<"b1", "b2", "b3", "b4">>
BucketLists == { SubSeq(BucketNames, 1, n) : n \in 0..MaxBuckets }

Obj(key, size, storage_class, age) ==
    [ key |-> key, size |-> size, storage_class |-> storage_class,
      last_modified |-> Now0 - age ]

\* objects of the whole-run specification
FleetObjects ==
    { Obj(<<"x">>, IaMinSizeBytes + 1, "STANDARD", GlacierAgeDays * Day + 1),
      Obj(<<"a", "/", "y">>, IaMinSizeBytes, "STANDARD_IA", 200 * Day),
      Obj(<<"a", "/", "z">>, 5, "REDUCED_REDUNDANCY", Day) }

\* objects of the single-scan specification
ScanKeys == { <<"x">>, <<"a", "/", "y">> }
ScanSizes == { 0, IaMinSizeBytes, IaMinSizeBytes + 1 }
ScanClasses == { None, "", "STANDARD", "STANDARD_IA", "GLACIER", "DEEP_ARCHIVE" }
ScanAges ==
    UNION { {d * Day, d * Day + 1} : d \in {IaAgeDays, DefaultDaysThreshold, GlacierAgeDays, 200} }
ScanObjects ==
    { Obj(k, sz, sc, ag) : k \in ScanKeys, sz \in ScanSizes, sc \in ScanClasses, ag \in ScanAges }
ScanDaysThresholds == { DefaultDaysThreshold, 200 }

Upload(key, upload_id, age) ==
    [ key |-> key, upload_id |-> upload_id, initiated |-> Now0 - age ]

FleetUploads ==
    { Upload(<<"u">>, "id1", 10 * Day), Upload(<<"v">>, "id2", 3 * Day) }
FleetParts == { PartsError, <<5 * 1024 * 1024, 1024>> }

Keys(objs) == { objs[i].key : i \in 1..Len(objs) }

\* objects and uploads listed so far in the whole run
TotalObjectsListed ==
    SumSeq([i \in 1..Len(bucket_analyses) |-> bucket_analyses[i].total_objects])
        + (IF pc = "objects_loop" THEN analysis.total_objects ELSE 0)
TotalUploadsListed ==
    SumSeq([i \in 1..Len(multipart_analyses) |-> multipart_analyses[i].total_uploads])
        + (IF pc = "multipart_loop" THEN multipart_analysis.total_uploads ELSE 0)

----------------------------------------------------------------------------
(* main *)

\* the thresholds of a run when the caller overrides none
DefaultConfig ==
    [ staleAgeDays     |-> DefaultDaysThreshold,
      iaAgeDays        |-> IaAgeDays,
      iaMinSizeBytes   |-> IaMinSizeBytes,
      glacierAgeDays   |-> GlacierAgeDays,
      multipartAgeDays |-> DefaultMultipartDays ]

\* parse_args: --days-threshold and --multipart-days (type=int, any sign) are
\* the only thresholds the command line takes
ArgsDaysThreshold(cfg) == cfg.staleAgeDays
ArgsMultipartDays(cfg) == cfg.multipartAgeDays

\* lambda_runtime_analyzer.py is not running
LambdaIdle ==
    /\ functions = <<>>
    /\ check_compatibility = FALSE
    /\ idx = 0
    /\ stats = None
    /\ runtime_counts = EmptyMap
    /\ results = <<>>

\* ec2_migration.py is not running
MigrationIdle ==
    /\ instances_to_process = <<>>
    /\ ii = 0
    /\ new_type = None
    /\ vi = 0
    /\ ec2_calls = <<>>
    /\ processed = <<>>
    /\ success_count = 0

\* ec2_rightsize.py is not running
RightsizeIdle ==
    /\ instance_type = None
    /\ cpu_avg = 0
    /\ suggestion = None

OtherProgramsIdle == LambdaIdle /\ MigrationIdle /\ RightsizeIdle

Init ==
    /\ pc = "get_buckets"
    /\ buckets = <<>>
    /\ config = DefaultConfig
    /\ days_threshold = ArgsDaysThreshold(config)
    /\ multipart_days = ArgsMultipartDays(config)
    /\ bi = 0
    /\ clock = Now0
    /\ now = None
    /\ listed = <<>>
    /\ analysis = None
    /\ uploads_seen = <<>>
    /\ multipart_analysis = None
    /\ bucket_analyses = <<>>
    /\ multipart_analyses = <<>>
    /\ report = NoReport
    /\ s3_calls = {}
    /\ OtherProgramsIdle

\* buckets = args.buckets or analyzer.get_all_buckets(); return when empty
\* sources: "args" when --buckets names them, "list_buckets" when
\* get_all_buckets asks S3 (an empty answer also stands for its ClientError)
GetBucketsFrom(lists, sources) ==
    /\ pc = "get_buckets"
    /\ \E bl \in lists, src \in sources :
        /\ src = "args" => bl # <<>>
        /\ buckets' = bl
        /\ s3_calls' = IF src = "list_buckets" THEN s3_calls \cup {"ListBuckets"}
                        ELSE s3_calls
        /\ IF bl = <<>>
           THEN pc' = "exit_no_buckets" /\ bi' = bi
           ELSE pc' = "analyze_objects" /\ bi' = 1
    /\ UNCHANGED <<otherPrograms, config, days_threshold, multipart_days, clock, now, listed, analysis,
                   uploads_seen, multipart_analysis, bucket_analyses,
                   multipart_analyses, report>>

GetBuckets == GetBucketsFrom(BucketLists, {"list_buckets"})

SsoOutcomes == {"valid", "relogin", "login_failed"}

\* analyze_bucket_objects up to the loop: the dict, now, the session check.
\* login_sso runs `aws sso login` with check=True: its CalledProcessError is no
\* ClientError, leaves analyze_bucket_objects and main uncaught.
BeginObjectScan ==
    /\ pc = "analyze_objects"
    /\ clock' = clock + 1
    /\ \E sso \in SsoOutcomes :
        IF sso = "login_failed"
        THEN /\ pc' = "crashed"
             /\ UNCHANGED <<now, listed, analysis, s3_calls>>
        ELSE /\ pc' = "objects_loop"
             /\ now' = clock
             /\ listed' = <<>>
             /\ analysis' = NewAnalysis(buckets[bi])
             /\ s3_calls' = s3_calls \cup {"ListObjects"}
    /\ UNCHANGED <<otherPrograms, buckets, config, days_threshold, multipart_days, bi, uploads_seen,
                   multipart_analysis, bucket_analyses, multipart_analyses, report>>

\* bug: datetime.now() is read again for every object
ListObject_RereadsNow(domain) ==
    /\ pc = "objects_loop"
    /\ \E obj \in domain :
        /\ obj.key \notin Keys(listed)
        /\ listed' = Append(listed, obj)
        /\ analysis' = AddObject(analysis, obj, clock, days_threshold)
    /\ now' = clock
    /\ clock' = clock + 1
    /\ UNCHANGED <<otherPrograms, pc, buckets, config, s3_calls, days_threshold, multipart_days, bi,
                   uploads_seen, multipart_analysis, bucket_analyses,
                   multipart_analyses, report>>

\* the listing yields one more object and the loop body folds it
ListObject(domain) ==
    /\ pc = "objects_loop"
    /\ \E obj \in domain :
        /\ obj.key \notin Keys(listed)
        /\ listed' = Append(listed, obj)
        /\ analysis' = AddObject(analysis, obj, now, days_threshold)
    /\ UNCHANGED <<otherPrograms, pc, buckets, config, s3_calls, days_threshold, multipart_days, bi, clock, now,
                   uploads_seen, multipart_analysis, bucket_analyses,
                   multipart_analyses, report>>

FleetListObject ==
    /\ TotalObjectsListed < MaxObjects
    /\ ListObject(FleetObjects)

ScanListObject ==
    /\ Len(listed) < MaxScanObjects
    /\ ListObject(ScanObjects)

\* `return analysis` and main's bucket_analyses.append(analysis)
ReturnAnalysis(a) ==
    /\ bucket_analyses' = Append(bucket_analyses, a)
    /\ analysis' = None
    /\ pc' = "analyze_multipart"
    /\ UNCHANGED <<otherPrograms, buckets, config, s3_calls, days_threshold, multipart_days, bi, clock, now, listed,
                   uploads_seen, multipart_analysis, multipart_analyses, report>>

\* the listing raises ClientError: except ClientError sets analysis['error']
ListObjectsFails ==
    /\ pc = "objects_loop"
    /\ ReturnAnalysis([analysis EXCEPT !.error = "ClientError"])

\* the listing is exhausted
ListObjectsEnds ==
    /\ pc = "objects_loop"
    /\ ReturnAnalysis(analysis)

\* analyze_multipart_uploads up to the loop
BeginMultipartScan ==
    /\ pc = "analyze_multipart"
    /\ pc' = "multipart_loop"
    /\ now' = clock
    /\ clock' = clock + 1
    /\ uploads_seen' = <<>>
    /\ multipart_analysis' = NewMultipartAnalysis(buckets[bi])
    /\ s3_calls' = s3_calls \cup {"ListMultipartUploads"}
    /\ UNCHANGED <<otherPrograms, buckets, config, days_threshold, multipart_days, bi, listed, analysis,
                   bucket_analyses, multipart_analyses, report>>

\* the paginator yields one more upload and the loop body folds it
ListUpload(domain, partsDomain) ==
    /\ pc = "multipart_loop"
    /\ \E upload \in domain, parts \in partsDomain :
        /\ upload.upload_id \notin {uploads_seen[i].upload.upload_id : i \in 1..Len(uploads_seen)}
        /\ uploads_seen' = Append(uploads_seen, [upload |-> upload, parts |-> parts])
        /\ multipart_analysis' =
               AddUpload(multipart_analysis, upload, parts, now, multipart_days)
        /\ s3_calls' = s3_calls \cup CallsOfUpload(upload, now, multipart_days)
    /\ UNCHANGED <<otherPrograms, pc, buckets, config, days_threshold, multipart_days, bi, clock, now, listed,
                   analysis, bucket_analyses, multipart_analyses, report>>

FleetListUpload ==
    /\ TotalUploadsListed < MaxUploads
    /\ ListUpload(FleetUploads, FleetParts)

\* `return multipart_analysis`, main's append, and the loop's next iteration
ReturnMultipartAnalysis(m) ==
    /\ multipart_analyses' = Append(multipart_analyses, m)
    /\ multipart_analysis' = None
    /\ IF bi < Len(buckets)
       THEN pc' = "analyze_objects" /\ bi' = bi + 1
       ELSE pc' = "generate_report" /\ bi' = bi
    /\ UNCHANGED <<otherPrograms, buckets, config, s3_calls, days_threshold, multipart_days, clock, now, listed,
                   analysis, uploads_seen, bucket_analyses, report>>

\* the paginator raises ClientError: except ClientError sets multipart_analysis['error']
ListUploadsFails ==
    /\ pc = "multipart_loop"
    /\ ReturnMultipartAnalysis([multipart_analysis EXCEPT !.error = "ClientError"])

ListUploadsEnds ==
    /\ pc = "multipart_loop"
    /\ ReturnMultipartAnalysis(multipart_analysis)

\* bug: an errored analysis is zeroed in place while the report is written
GenerateReport_ZeroesErrored ==
    /\ pc = "generate_report"
    /\ report' = MakeReport(bucket_analyses, multipart_analyses)
    /\ pc' = "done"
    /\ bucket_analyses' =
           [i \in 1..Len(bucket_analyses) |->
               IF bucket_analyses[i].error = NoError THEN bucket_analyses[i]
               ELSE [NewAnalysis(bucket_analyses[i].bucket_name)
                         EXCEPT !.error = bucket_analyses[i].error]]
    /\ UNCHANGED <<otherPrograms, buckets, config, s3_calls, days_threshold, multipart_days, bi, clock, now, listed,
                   analysis, uploads_seen, multipart_analysis, multipart_analyses>>

GenerateReport ==
    /\ pc = "generate_report"
    /\ report' = MakeReport(bucket_analyses, multipart_analyses)
    /\ pc' = "done"
    /\ UNCHANGED <<otherPrograms, buckets, config, s3_calls, days_threshold, multipart_days, bi, clock, now, listed,
                   analysis, uploads_seen, multipart_analysis, bucket_analyses,
                   multipart_analyses>>

Next ==
    \/ GetBuckets
    \/ BeginObjectScan
    \/ FleetListObject
    \/ ListObjectsFails
    \/ ListObjectsEnds
    \/ BeginMultipartScan
    \/ FleetListUpload
    \/ ListUploadsFails
    \/ ListUploadsEnds
    \/ GenerateReport

Spec == Init /\ [][Next]_vars

----------------------------------------------------------------------------
(* One call of analyze_bucket_objects, over every object of ScanObjects *)

InitScan ==
    /\ pc = "analyze_objects"
    /\ buckets = <<"b1">>
    /\ config \in { [DefaultConfig EXCEPT !.staleAgeDays = d] : d \in ScanDaysThresholds }
    /\ days_threshold = ArgsDaysThreshold(config)
    /\ multipart_days = ArgsMultipartDays(config)
    /\ bi = 1
    /\ clock = Now0
    /\ now = None
    /\ listed = <<>>
    /\ analysis = None
    /\ uploads_seen = <<>>
    /\ multipart_analysis = None
    /\ bucket_analyses = <<>>
    /\ multipart_analyses = <<>>
    /\ report = NoReport
    /\ s3_calls = {}
    /\ OtherProgramsIdle

NextScan ==
    \/ BeginObjectScan
    \/ ScanListObject
    \/ ListObjectsFails
    \/ ListObjectsEnds

SpecScan == InitScan /\ [][NextScan]_vars

----------------------------------------------------------------------------
(* One call of analyze_bucket_objects, over two objects of ScanObjects *)

PureListObject ==
    /\ Len(listed) < MaxPureObjects
    /\ ListObject(ScanObjects)

NextPure ==
    \/ BeginObjectScan
    \/ PureListObject
    \/ ListObjectsFails
    \/ ListObjectsEnds

SpecPure == InitScan /\ [][NextPure]_vars

----------------------------------------------------------------------------
(* One call of analyze_bucket_objects, over keys of every shape *)

PrefixKeys ==
    { <<"x">>,
      <<"a", "/", "y">>,
      <<"a", "/", "b", "/", "x">>,
      <<"a", "/", "c", "/", "y">>,
      <<"/", "x">>,
      <<"a", "/">>,
      <<"r", "o", "o", "t", "/", "x">> }
PrefixSizes == { 5, 7 }
PrefixObjects == { Obj(k, sz, "STANDARD", Day) : k \in PrefixKeys, sz \in PrefixSizes }

PrefixListObject ==
    /\ Len(listed) < MaxPrefixObjects
    /\ ListObject(PrefixObjects)

NextPrefix ==
    \/ BeginObjectScan
    \/ PrefixListObject
    \/ ListObjectsFails
    \/ ListObjectsEnds

SpecPrefix == InitScan /\ [][NextPrefix]_vars

----------------------------------------------------------------------------
(* One call of analyze_multipart_uploads, over every upload of ScanUploads *)

ScanUploadIds == { "id1", "id2", "id3" }
ScanUploadAges ==
    { 3 * Day, DefaultMultipartDays * Day, DefaultMultipartDays * Day + 1, 10 * Day }
ScanUploads ==
    { Upload(<<"u">>, id, ag) : id \in ScanUploadIds, ag \in ScanUploadAges }
ScanParts == { PartsError, <<>>, <<1024, 512>> }
ScanMultipartDays == { DefaultMultipartDays, 2 }

ScanListUpload ==
    /\ Len(uploads_seen) < MaxScanUploads
    /\ ListUpload(ScanUploads, ScanParts)

InitMultipart ==
    /\ pc = "analyze_multipart"
    /\ buckets = <<"b1">>
    /\ config \in { [DefaultConfig EXCEPT !.multipartAgeDays = d] : d \in ScanMultipartDays }
    /\ days_threshold = ArgsDaysThreshold(config)
    /\ multipart_days = ArgsMultipartDays(config)
    /\ bi = 1
    /\ clock = Now0
    /\ now = None
    /\ listed = <<>>
    /\ analysis = None
    /\ uploads_seen = <<>>
    /\ multipart_analysis = None
    /\ bucket_analyses = <<NewAnalysis("b1")>>
    /\ multipart_analyses = <<>>
    /\ report = NoReport
    /\ s3_calls = {"ListObjects"}
    /\ OtherProgramsIdle

NextMultipart ==
    \/ BeginMultipartScan
    \/ ScanListUpload
    \/ ListUploadsFails
    \/ ListUploadsEnds

SpecMultipart == InitMultipart /\ [][NextMultipart]_vars

----------------------------------------------------------------------------
(* A run over one bucket under each of ConfigRequests *)

ConfigRequests ==
    { DefaultConfig,
      [ staleAgeDays |-> 200, iaAgeDays |-> 60, iaMinSizeBytes |-> 0,
        glacierAgeDays |-> 90, multipartAgeDays |-> 2 ],
      [DefaultConfig EXCEPT !.staleAgeDays = -1],
      [DefaultConfig EXCEPT !.multipartAgeDays = -1] }

ConfigObjects ==
    { Obj(<<"x">>, IaMinSizeBytes + 1, "STANDARD", IaAgeDays * Day + 1),
      Obj(<<"a", "/", "y">>, 5, "STANDARD", 200 * Day + 1),
      Obj(<<"a", "/", "z">>, IaMinSizeBytes + 1, "STANDARD_IA", 100 * Day) }

ConfigGetBuckets == GetBucketsFrom({ <<"b1">> }, {"args", "list_buckets"})

ConfigListObject ==
    /\ Len(listed) < MaxScanObjects
    /\ ListObject(ConfigObjects)

ConfigListUpload ==
    /\ Len(uploads_seen) < MaxScanUploads
    /\ ListUpload(FleetUploads, FleetParts)

InitConfig ==
    /\ pc = "get_buckets"
    /\ buckets = <<>>
    /\ config \in ConfigRequests
    /\ days_threshold = ArgsDaysThreshold(config)
    /\ multipart_days = ArgsMultipartDays(config)
    /\ bi = 0
    /\ clock = Now0
    /\ now = None
    /\ listed = <<>>
    /\ analysis = None
    /\ uploads_seen = <<>>
    /\ multipart_analysis = None
    /\ bucket_analyses = <<>>
    /\ multipart_analyses = <<>>
    /\ report = NoReport
    /\ s3_calls = {}
    /\ OtherProgramsIdle

NextConfig ==
    \/ ConfigGetBuckets
    \/ BeginObjectScan
    \/ ConfigListObject
    \/ ListObjectsFails
    \/ ListObjectsEnds
    \/ BeginMultipartScan
    \/ ConfigListUpload
    \/ ListUploadsFails
    \/ ListUploadsEnds
    \/ GenerateReport

SpecConfig == InitConfig /\ [][NextConfig]_vars

----------------------------------------------------------------------------
(* lambda_runtime_analyzer.py: analyze_lambda_runtimes *)

\* s3_cost_analyzer.py is not running
S3Idle ==
    /\ buckets = <<>>
    /\ config = DefaultConfig
    /\ s3_calls = {}
    /\ days_threshold = ArgsDaysThreshold(config)
    /\ multipart_days = ArgsMultipartDays(config)
    /\ bi = 0
    /\ clock = Now0
    /\ now = None
    /\ listed = <<>>
    /\ analysis = None
    /\ uploads_seen = <<>>
    /\ multipart_analysis = None
    /\ bucket_analyses = <<>>
    /\ multipart_analyses = <<>>
    /\ report = NoReport

Digits == <<"0", "1", "2", "3", "4", "5", "6", "7", "8", "9">>
IsDigit(c) == \E d \in 1..10 : Digits[d] = c
DigitVal(c) == (CHOOSE d \in 1..10 : Digits[d] = c) - 1

\* the number a string of decimal digits writes
RECURSIVE ToInt(_)
ToInt(ds) ==
    IF ds = <<>> THEN 0
    ELSE 10 * ToInt(SubSeq(ds, 1, Len(ds) - 1)) + DigitVal(ds[Len(ds)])

RECURSIVE Pow10(_)
Pow10(n) == IF n = 0 THEN 1 ELSE 10 * Pow10(n - 1)

\* str.startswith
StartsWith(str, prefix) ==
    Len(str) >= Len(prefix) /\ SubSeq(str, 1, Len(prefix)) = prefix

\* str.replace(old, ''): every occurrence of old is removed, left to right
RECURSIVE Remove(_, _)
Remove(str, old) ==
    IF Len(str) < Len(old) THEN str
    ELSE IF SubSeq(str, 1, Len(old)) = old
         THEN Remove(SubSeq(str, Len(old) + 1, Len(str)), old)
         ELSE <<Head(str)>> \o Remove(Tail(str), old)

ValueError == [error |-> "ValueError"]
Dots(str) == { i \in 1..Len(str) : str[i] = "." }

\* float(str) for strings of digits and dots: the value num / 10^scale, or
\* ValueError (no digit, a second dot, any other character)
ParseFloat(str) ==
    IF \/ \E i \in 1..Len(str) : ~IsDigit(str[i]) /\ str[i] # "."
       \/ Cardinality(Dots(str)) > 1
       \/ \A i \in 1..Len(str) : ~IsDigit(str[i])
    THEN ValueError
    ELSE IF Dots(str) = {} THEN [num |-> ToInt(str), scale |-> 0]
    ELSE LET d == CHOOSE i \in Dots(str) : TRUE IN
         [ num   |-> ToInt(SubSeq(str, 1, d - 1) \o SubSeq(str, d + 1, Len(str))),
           scale |-> Len(str) - d ]

\* version_float <= 3.9
AtMost39(f) == f.num * 10 <= 39 * Pow10(f.scale)

PythonPrefix == <<"p", "y", "t", "h", "o", "n">>
NoRuntime == <<"N", "/", "A">>

\* the test of lines 308-313: the function is reported
Flagged(runtime) ==
    /\ StartsWith(runtime, PythonPrefix)
    /\ LET version_float == ParseFloat(Remove(runtime, PythonPrefix)) IN
       /\ version_float # ValueError
       /\ AtMost39(version_float)

risk_order(score) ==
    CASE score = "HIGH RISK"   -> 0
      [] score = "MEDIUM RISK" -> 1
      [] score = "LOW RISK"    -> 2
      [] score = "UNKNOWN"     -> 3
      [] score = "NOT CHECKED" -> 4
      [] OTHER                 -> 99

FunctionNames == <<"f1", "f2", "f3", "f4">>
NameRank(name) == CHOOSE i \in 1..Len(FunctionNames) : FunctionNames[i] = name

\* the sort key (risk_order, FunctionName) of one row against another's
RowBefore(r1, r2) ==
    \/ risk_order(r1.CompatibilityScore) < risk_order(r2.CompatibilityScore)
    \/ /\ risk_order(r1.CompatibilityScore) = risk_order(r2.CompatibilityScore)
       /\ NameRank(r1.FunctionName) <= NameRank(r2.FunctionName)

RECURSIVE InsertRow(_, _)
InsertRow(row, rows) ==
    IF rows = <<>> THEN <<row>>
    ELSE IF RowBefore(row, Head(rows)) THEN <<row>> \o rows
    ELSE <<Head(rows)>> \o InsertRow(row, Tail(rows))

\* results.sort(key=...)
RECURSIVE SortRows(_)
SortRows(rows) ==
    IF rows = <<>> THEN <<>>
    ELSE InsertRow(rows[Len(rows)], SortRows(SubSeq(rows, 1, Len(rows) - 1)))

NewStats(total) ==
    [ total |-> total, python_39_below |-> 0, cloudformation_managed |-> 0,
      requires_manual_update |-> 0, high_risk |-> 0, medium_risk |-> 0, low_risk |-> 0 ]

EmptyStats ==
    [ total |-> 0, python_39_below |-> 0, cloudformation_managed |-> 0,
      requires_manual_update |-> 0 ]

\* the statistics after a flagged function: is_cfn is what
\* check_cloudformation_managed answered, score the compatibility score
CountFlagged(st, is_cfn, score) ==
    [st EXCEPT
        !.python_39_below = @ + 1,
        !.cloudformation_managed = IF is_cfn THEN @ + 1 ELSE @,
        !.requires_manual_update = IF is_cfn THEN @ ELSE @ + 1,
        !.high_risk = IF score = "HIGH RISK" THEN @ + 1 ELSE @,
        !.medium_risk = IF score = "MEDIUM RISK" THEN @ + 1 ELSE @,
        !.low_risk = IF score = "LOW RISK" THEN @ + 1 ELSE @]

Row(func, runtime, is_cfn, score) ==
    [ FunctionName |-> func.FunctionName, Runtime |-> runtime,
      CloudFormationManaged |-> IF is_cfn THEN "Yes" ELSE "No",
      CompatibilityScore |-> score ]

\* a function without the Runtime key (a container image)
Absent == <<"<absent>">>

\* the functions of an account
LambdaRuntimes ==
    { PythonPrefix \o <<"2", ".", "7">>,
      PythonPrefix \o <<"3", ".", "8">>,
      PythonPrefix \o <<"3", ".", "9">>,
      PythonPrefix \o <<"3", ".", "1", "0">>,
      PythonPrefix \o <<"3", ".", "1", "2">>,
      PythonPrefix,
      <<"n", "o", "d", "e", "j", "s", "1", "8", ".", "x">>,
      Absent }

FunctionLists ==
    UNION { [1..n -> LambdaRuntimes] : n \in 0..MaxFunctions }

Function(i, runtime) == [ FunctionName |-> FunctionNames[i], Runtime |-> runtime ]

CompatibilityScores == {"HIGH RISK", "MEDIUM RISK", "LOW RISK", "UNKNOWN"}

\* functions = get_all_lambda_functions(region), the early return and stats
LambdaGetFunctions ==
    /\ pc = "lambda_start"
    /\ \/ \E rs \in FunctionLists :
            /\ functions' = [i \in 1..Len(rs) |-> Function(i, rs[i])]
            /\ IF rs = <<>>
               THEN pc' = "lambda_done" /\ stats' = EmptyStats
               ELSE pc' = "lambda_loop" /\ stats' = NewStats(Len(rs))
       \/ \* list_functions raises and get_all_lambda_functions raises again
          /\ pc' = "lambda_crashed"
          /\ UNCHANGED <<functions, stats>>
    /\ UNCHANGED <<s3Vars, rightsizeVars, migrationVars, check_compatibility, idx, runtime_counts, results>>

\* func.get('Runtime', 'N/A')
RuntimeOf(func) == IF func.Runtime = Absent THEN NoRuntime ELSE func.Runtime

\* one iteration of `for idx, func in enumerate(functions, 1)`
LambdaAnalyzeFunction ==
    /\ pc = "lambda_loop"
    /\ idx < Len(functions)
    /\ idx' = idx + 1
    /\ LET func    == functions[idx + 1]
           runtime == RuntimeOf(func)
       IN
       /\ runtime_counts' =
              [r \in DOMAIN runtime_counts \cup {runtime} |->
                  IF r = runtime
                  THEN (IF r \in DOMAIN runtime_counts THEN runtime_counts[r] ELSE 0) + 1
                  ELSE runtime_counts[r]]
       /\ IF Flagged(runtime)
          THEN \E is_cfn \in BOOLEAN,
                  score \in (IF check_compatibility THEN CompatibilityScores
                             ELSE {"NOT CHECKED"}) :
                   /\ stats' = CountFlagged(stats, is_cfn, score)
                   /\ results' = Append(results, Row(func, runtime, is_cfn, score))
          ELSE UNCHANGED <<stats, results>>
    /\ UNCHANGED <<pc, s3Vars, rightsizeVars, migrationVars, functions, check_compatibility>>

\* the loop is over: results.sort, the summary, the CSV, return results, stats
LambdaFinish ==
    /\ pc = "lambda_loop"
    /\ idx = Len(functions)
    /\ results' = SortRows(results)
    /\ pc' = "lambda_done"
    /\ UNCHANGED <<s3Vars, rightsizeVars, migrationVars, functions, check_compatibility, idx, stats, runtime_counts>>

InitLambda ==
    /\ pc = "lambda_start"
    /\ S3Idle
    /\ functions = <<>>
    /\ check_compatibility \in BOOLEAN
    /\ idx = 0
    /\ stats = None
    /\ runtime_counts = EmptyMap
    /\ results = <<>>
    /\ MigrationIdle
    /\ RightsizeIdle

NextLambda ==
    \/ LambdaGetFunctions
    \/ LambdaAnalyzeFunction
    \/ LambdaFinish

SpecLambda == InitLambda /\ [][NextLambda]_vars

----------------------------------------------------------------------------
(* ec2_migration.py: main and process_instance *)

INSTANCE_TYPE_MAP ==
    [ t \in {"m4.2xlarge", "m4.xlarge", "m5.4xlarge"} |->
        CASE t = "m4.2xlarge" -> "r6i.xlarge"
          [] t = "m4.xlarge"  -> "r6i.large"
          [] t = "m5.4xlarge" -> "r5.2xlarge" ]

PREFIX == <<"b", "r", "a", "n", "c", "h">>

ExcludedHosts ==
    { <<"b", "r", "a", "n", "c", "h", "2", ".", "t", "e", "s", "t", "t", "s", "s", ".", "c", "o", "m">>,
      <<"b", "r", "a", "n", "c", "h", "1", ".", "d", "e", "v", "t", "s", "s", ".", "c", "o", "m">>,
      <<"b", "r", "a", "n", "c", "h", "4", ".", "d", "e", "v", "t", "s", "s", ".", "c", "o", "m">> }

\* what get_instance_name returns without a Name tag
NoName == <<"<none>">>

\* get_instance_name: the value of the first tag whose key is Name
get_instance_name(instance) ==
    IF instance.HasTags /\ \E t \in 1..Len(instance.Tags) : instance.Tags[t].Key = "Name"
    THEN LET t == CHOOSE t \in 1..Len(instance.Tags) :
                      /\ instance.Tags[t].Key = "Name"
                      /\ \A u \in 1..(t - 1) : instance.Tags[u].Key # "Name"
         IN  instance.Tags[t].Value
    ELSE NoName

\* bug: the three hosts are not excluded
ShouldSkip_NoExclusions(instance_name) ==
    \/ instance_name = NoName
    \/ instance_name = <<>>
    \/ ~StartsWith(instance_name, PREFIX)

\* not instance_name or not instance_name.startswith(PREFIX) or instance_name in [...]
ShouldSkip(instance_name) ==
    \/ instance_name = NoName
    \/ instance_name = <<>>
    \/ ~StartsWith(instance_name, PREFIX)
    \/ instance_name \in ExcludedHosts

InstanceIds == <<"i-1", "i-2", "i-3">>

NameTag(name) == <<[Key |-> "env", Value |-> <<"p", "r", "o", "d">>], [Key |-> "Name", Value |-> name]>>

Instance(has_tags, tags, type, state, volumes) ==
    [ HasTags |-> has_tags, Tags |-> tags, InstanceType |-> type, State |-> state,
      Volumes |-> volumes ]

\* the instances describe_instances may answer with
InstanceKinds ==
    { Instance(TRUE, NameTag(<<"b", "r", "a", "n", "c", "h", "1">>), "m4.xlarge", "running", <<"gp2", "gp3">>),
      Instance(TRUE, NameTag(<<"b", "r", "a", "n", "c", "h", "9", ".", "t", "e", "s", "t", "t", "s", "s", ".", "c", "o", "m">>), "t3.micro", "stopped", <<"gp2">>),
      Instance(TRUE, NameTag(<<"b", "r", "a", "n", "c", "h", "9", ".", "t", "e", "s", "t", "t", "s", "s", ".", "c", "o", "m">>), "m5.4xlarge", "terminated", <<>>),
      Instance(TRUE, NameTag(<<"b", "r", "a", "n", "c", "h", "2", ".", "t", "e", "s", "t", "t", "s", "s", ".", "c", "o", "m">>), "m4.xlarge", "running", <<"gp2">>),
      Instance(TRUE, NameTag(<<"b", "r", "a", "n", "c", "h", "1", ".", "d", "e", "v", "t", "s", "s", ".", "c", "o", "m">>), "m4.xlarge", "running", <<"gp2">>),
      Instance(TRUE, NameTag(<<"b", "r", "a", "n", "c", "h", "4", ".", "d", "e", "v", "t", "s", "s", ".", "c", "o", "m">>), "m4.2xlarge", "running", <<"gp2">>),
      Instance(TRUE, NameTag(<<"w", "e", "b", "1">>), "m4.xlarge", "running", <<"gp2">>),
      Instance(TRUE, NameTag(<<"b", "r", "a", "n">>), "m4.xlarge", "running", <<"gp2">>),
      Instance(TRUE, NameTag(<<>>), "m4.xlarge", "running", <<"gp2">>),
      Instance(TRUE, <<[Key |-> "env", Value |-> <<"p", "r", "o", "d">>]>>, "m4.xlarge", "running", <<"gp2">>),
      Instance(FALSE, <<>>, "m4.xlarge", "running", <<"gp2">>) }

WithId(kind, i) ==
    [ InstanceId |-> InstanceIds[i], HasTags |-> kind.HasTags, Tags |-> kind.Tags,
      InstanceType |-> kind.InstanceType, State |-> kind.State, Volumes |-> kind.Volumes ]

Reservations ==
    UNION { [1..n -> InstanceKinds] : n \in 0..MaxInstances }

\* instance['State']['Name'] not in ['terminated', 'terminating']
NotTerminated(instances) ==
    SelectSeq(instances, LAMBDA inst : inst.State \notin {"terminated", "terminating"})

Call(op, id, ok) == [op |-> op, id |-> id, ok |-> ok]

\* the instance process_instance is working on
Current == instances_to_process[ii]

\* process_instance returns result; main counts it and takes the next instance
MigReturn(result) ==
    /\ processed' = Append(processed, result)
    /\ success_count' = IF result THEN success_count + 1 ELSE success_count
    /\ new_type' = None
    /\ vi' = 0
    /\ pc' = "mig_next"

\* main up to the loop: describe_instances, the terminated filter, the early return
MigDescribeInstances ==
    /\ pc = "mig_start"
    /\ \/ \E rs \in Reservations :
            LET found == NotTerminated([i \in 1..Len(rs) |-> WithId(rs[i], i)]) IN
            /\ instances_to_process' = found
            /\ pc' = IF found = <<>> THEN "mig_done" ELSE "mig_next"
       \/ \* describe_instances raises ClientError, caught at line 202
          /\ pc' = "mig_done"
          /\ UNCHANGED instances_to_process
    /\ UNCHANGED <<s3Vars, rightsizeVars, lambdaVars, ii, new_type, vi, ec2_calls, processed, success_count>>

\* process_instance, lines 113-132: the name test and the type mapping
MigBeginInstance ==
    /\ pc = "mig_next"
    /\ ii < Len(instances_to_process)
    /\ ii' = ii + 1
    /\ LET instance == instances_to_process[ii + 1] IN
       IF ShouldSkip(get_instance_name(instance))
       THEN /\ processed' = Append(processed, FALSE)
            /\ UNCHANGED <<pc, new_type>>
       ELSE /\ new_type' = IF instance.InstanceType \in DOMAIN INSTANCE_TYPE_MAP
                           THEN INSTANCE_TYPE_MAP[instance.InstanceType]
                           ELSE None
            /\ pc' = "mig_stop"
            /\ UNCHANGED processed
    /\ UNCHANGED <<s3Vars, rightsizeVars, lambdaVars, instances_to_process, vi, ec2_calls, success_count>>

\* the loop of main is over
MigFinish ==
    /\ pc = "mig_next"
    /\ ii = Len(instances_to_process)
    /\ pc' = "mig_done"
    /\ UNCHANGED <<s3Vars, rightsizeVars, lambdaVars, migrationVars>>

\* bug: the result of stop_instance is not tested
MigStopInstances_IgnoresFailure ==
    /\ pc = "mig_stop"
    /\ \E ok \in BOOLEAN :
        /\ ec2_calls' = Append(ec2_calls, Call("stop_instances", Current.InstanceId, ok))
        /\ pc' = IF ok THEN "mig_wait_stopped"
                 ELSE IF new_type # None THEN "mig_change_type" ELSE "mig_describe_volumes"
        /\ UNCHANGED <<processed, success_count, new_type, vi>>
    /\ UNCHANGED <<s3Vars, rightsizeVars, lambdaVars, instances_to_process, ii>>

\* stop_instance: ec2_client.stop_instances; ClientError makes it return False
MigStopInstances ==
    /\ pc = "mig_stop"
    /\ \E ok \in BOOLEAN :
        /\ ec2_calls' = Append(ec2_calls, Call("stop_instances", Current.InstanceId, ok))
        /\ IF ok
           THEN pc' = "mig_wait_stopped" /\ UNCHANGED <<processed, success_count, new_type, vi>>
           ELSE MigReturn(FALSE)
    /\ UNCHANGED <<s3Vars, rightsizeVars, lambdaVars, instances_to_process, ii>>

\* stop_instance: the instance_stopped waiter, then the sleep and `if new_type`
MigWaitStopped ==
    /\ pc = "mig_wait_stopped"
    /\ \E ok \in BOOLEAN :
        /\ ec2_calls' = Append(ec2_calls, Call("wait_instance_stopped", Current.InstanceId, ok))
        /\ IF ok
           THEN /\ pc' = IF new_type # None THEN "mig_change_type" ELSE "mig_describe_volumes"
                /\ UNCHANGED <<processed, success_count, new_type, vi>>
           ELSE MigReturn(FALSE)
    /\ UNCHANGED <<s3Vars, rightsizeVars, lambdaVars, instances_to_process, ii>>

\* bug: a failed type change ends process_instance
MigChangeType_ReturnsOnFailure ==
    /\ pc = "mig_change_type"
    /\ \E ok \in BOOLEAN :
        /\ ec2_calls' =
               Append(ec2_calls, Call("modify_instance_attribute", Current.InstanceId, ok))
        /\ IF ok
           THEN pc' = "mig_describe_volumes" /\ UNCHANGED <<processed, success_count, new_type, vi>>
           ELSE MigReturn(FALSE)
    /\ UNCHANGED <<s3Vars, rightsizeVars, lambdaVars, instances_to_process, ii>>

\* change_instance_type: its result only prints a message
MigChangeType ==
    /\ pc = "mig_change_type"
    /\ \E ok \in BOOLEAN :
        ec2_calls' = Append(ec2_calls, Call("modify_instance_attribute", Current.InstanceId, ok))
    /\ pc' = "mig_describe_volumes"
    /\ UNCHANGED <<s3Vars, rightsizeVars, lambdaVars, instances_to_process, ii, new_type, vi, processed,
                   success_count>>

\* convert_volumes_to_gp3: describe_volumes
MigDescribeVolumes ==
    /\ pc = "mig_describe_volumes"
    /\ \E ok \in BOOLEAN :
        /\ ec2_calls' = Append(ec2_calls, Call("describe_volumes", Current.InstanceId, ok))
        /\ pc' = IF ok THEN "mig_modify_volume" ELSE "mig_start_instance"
    /\ vi' = 0
    /\ UNCHANGED <<s3Vars, rightsizeVars, lambdaVars, instances_to_process, ii, new_type, processed,
                   success_count>>

\* convert_volumes_to_gp3: one iteration of the loop over the volumes; a
\* ClientError of modify_volume ends the conversion
MigConvertVolume ==
    /\ pc = "mig_modify_volume"
    /\ vi < Len(Current.Volumes)
    /\ vi' = vi + 1
    /\ IF Current.Volumes[vi + 1] = "gp2"
       THEN \E ok \in BOOLEAN :
               /\ ec2_calls' = Append(ec2_calls, Call("modify_volume", Current.InstanceId, ok))
               /\ pc' = IF ok THEN "mig_modify_volume" ELSE "mig_start_instance"
       ELSE UNCHANGED <<ec2_calls, pc>>
    /\ UNCHANGED <<s3Vars, rightsizeVars, lambdaVars, instances_to_process, ii, new_type, processed,
                   success_count>>

\* convert_volumes_to_gp3 returns True, then the sleep
MigVolumesDone ==
    /\ pc = "mig_modify_volume"
    /\ vi = Len(Current.Volumes)
    /\ pc' = "mig_start_instance"
    /\ UNCHANGED <<s3Vars, rightsizeVars, lambdaVars, instances_to_process, ii, new_type, vi, ec2_calls,
                   processed, success_count>>

\* start_instance: ec2_client.start_instances
MigStartInstances ==
    /\ pc = "mig_start_instance"
    /\ \E ok \in BOOLEAN :
        /\ ec2_calls' = Append(ec2_calls, Call("start_instances", Current.InstanceId, ok))
        /\ IF ok
           THEN pc' = "mig_wait_running" /\ UNCHANGED <<processed, success_count, new_type, vi>>
           ELSE MigReturn(FALSE)
    /\ UNCHANGED <<s3Vars, rightsizeVars, lambdaVars, instances_to_process, ii>>

\* start_instance: the instance_running waiter, and process_instance returns
MigWaitRunning ==
    /\ pc = "mig_wait_running"
    /\ \E ok \in BOOLEAN :
        /\ ec2_calls' = Append(ec2_calls, Call("wait_instance_running", Current.InstanceId, ok))
        /\ MigReturn(ok)
    /\ UNCHANGED <<s3Vars, rightsizeVars, lambdaVars, instances_to_process, ii>>

InitMigration ==
    /\ pc = "mig_start"
    /\ S3Idle
    /\ LambdaIdle
    /\ MigrationIdle
    /\ RightsizeIdle

NextMigration ==
    \/ MigDescribeInstances
    \/ MigBeginInstance
    \/ MigFinish
    \/ MigStopInstances
    \/ MigWaitStopped
    \/ MigChangeType
    \/ MigDescribeVolumes
    \/ MigConvertVolume
    \/ MigVolumesDone
    \/ MigStartInstances
    \/ MigWaitRunning

SpecMigration == InitMigration /\ [][NextMigration]_vars

\* every call returns and every sleep ends: the script goes on while it can
SpecMigrationFair == SpecMigration /\ WF_vars(NextMigration)

----------------------------------------------------------------------------
(* ec2_rightsize.py: suggest_rightsize; prices in 1e-4 USD per hour *)

pricing_map ==
    [ t \in {"t2.micro", "t2.small", "t2.medium", "t3.micro", "t3.small", "t3.medium",
             "m5.large", "m5.xlarge", "m5.2xlarge", "c5.large", "c5.xlarge", "c5.2xlarge",
             "r5.large", "r5.xlarge", "r5.2xlarge"} |->
        CASE t = "t2.micro"   -> 116
          [] t = "t2.small"   -> 230
          [] t = "t2.medium"  -> 464
          [] t = "t3.micro"   -> 104
          [] t = "t3.small"   -> 208
          [] t = "t3.medium"  -> 416
          [] t = "m5.large"   -> 960
          [] t = "m5.xlarge"  -> 1920
          [] t = "m5.2xlarge" -> 3840
          [] t = "c5.large"   -> 850
          [] t = "c5.xlarge"  -> 1700
          [] t = "c5.2xlarge" -> 3400
          [] t = "r5.large"   -> 1260
          [] t = "r5.xlarge"  -> 2520
          [] t = "r5.2xlarge" -> 5040 ]

DefaultInstancePrice == 1000

\* pricing_map.get(instance_type, 0.10)
get_instance_pricing(type) ==
    IF type \in DOMAIN pricing_map THEN pricing_map[type] ELSE DefaultInstancePrice

\* bug: c5.large is sent to the m5 family
downsize_map_CrossFamily ==
    [ t \in {"t3.medium", "t3.small", "m5.2xlarge", "m5.xlarge", "m5.large", "c5.2xlarge",
             "c5.xlarge", "c5.large", "r5.2xlarge", "r5.xlarge", "r5.large"} |->
        CASE t = "t3.medium"  -> "t3.small"
          [] t = "t3.small"   -> "t3.micro"
          [] t = "m5.2xlarge" -> "m5.xlarge"
          [] t = "m5.xlarge"  -> "m5.large"
          [] t = "m5.large"   -> "t3.medium"
          [] t = "c5.2xlarge" -> "c5.xlarge"
          [] t = "c5.xlarge"  -> "c5.large"
          [] t = "c5.large"   -> "m5.large"
          [] t = "r5.2xlarge" -> "r5.xlarge"
          [] t = "r5.xlarge"  -> "r5.large"
          [] t = "r5.large"   -> "m5.large" ]

downsize_map ==
    [ t \in {"t3.medium", "t3.small", "m5.2xlarge", "m5.xlarge", "m5.large", "c5.2xlarge",
             "c5.xlarge", "c5.large", "r5.2xlarge", "r5.xlarge", "r5.large"} |->
        CASE t = "t3.medium"  -> "t3.small"
          [] t = "t3.small"   -> "t3.micro"
          [] t = "m5.2xlarge" -> "m5.xlarge"
          [] t = "m5.xlarge"  -> "m5.large"
          [] t = "m5.large"   -> "t3.medium"
          [] t = "c5.2xlarge" -> "c5.xlarge"
          [] t = "c5.xlarge"  -> "c5.large"
          [] t = "c5.large"   -> "t3.medium"
          [] t = "r5.2xlarge" -> "r5.xlarge"
          [] t = "r5.xlarge"  -> "r5.large"
          [] t = "r5.large"   -> "m5.large" ]

HoursPerMonth == 730

Suggestion(text, type, savings) ==
    [ recommendation |-> text, new_type |-> type, potential_savings |-> savings ]

\* (current_cost - new_cost) * 730
DownsizeSavings(type) ==
    (get_instance_pricing(type) - get_instance_pricing(downsize_map[type])) * HoursPerMonth

\* suggest_rightsize(instance_type, cpu_avg, memory_avg); cpu in hundredths
suggest_rightsize(type, cpu) ==
    IF cpu < 10 * 100
    THEN IF type \in DOMAIN downsize_map
         THEN Suggestion("Downsize to", downsize_map[type], DownsizeSavings(type))
         ELSE Suggestion("Review manually", None, 0)
    ELSE IF cpu < 25 * 100
    THEN IF type \in DOMAIN downsize_map
         THEN Suggestion("Consider downsizing to", downsize_map[type], DownsizeSavings(type))
         ELSE Suggestion("Review manually", None, 0)
    ELSE IF cpu > 70 * 100
    THEN Suggestion("CPU usage high - current size appropriate or consider upsizing", None, 0)
    ELSE Suggestion("Usage appears optimal", None, 0)

\* the instance types and average CPU values of the calls
RightsizeTypes == DOMAIN pricing_map \cup {"m4.large"}
CpuAverages == {0, 999, 1000, 2499, 2500, 7000, 7001, 10000}

\* one call of suggest_rightsize
SuggestRightsize ==
    /\ pc = "rightsize_call"
    /\ suggestion' = suggest_rightsize(instance_type, cpu_avg)
    /\ pc' = "rightsize_returned"
    /\ UNCHANGED <<s3Vars, lambdaVars, migrationVars, instance_type, cpu_avg>>

InitRightsize ==
    /\ pc = "rightsize_call"
    /\ S3Idle
    /\ LambdaIdle
    /\ MigrationIdle
    /\ instance_type \in RightsizeTypes
    /\ cpu_avg \in CpuAverages
    /\ suggestion = None

NextRightsize == SuggestRightsize

SpecRightsize == InitRightsize /\ [][NextRightsize]_vars

----------------------------------------------------------------------------
(* What a scan has produced so far: the analysis being built while the loop *)
(* runs, the analysis just returned once it has ended.  `listed` and `now`  *)
(* are those of that scan in both positions.                                *)

ScanObserved == pc \in {"objects_loop", "analyze_multipart"}

ScanOf ==
    IF pc = "objects_loop" THEN analysis ELSE bucket_analyses[Len(bucket_analyses)]

\* every analysis there is: the returned ones and the one being built
AllAnalyses ==
    { bucket_analyses[i] : i \in 1..Len(bucket_analyses) }
        \cup (IF pc = "objects_loop" THEN {analysis} ELSE {})

EntryOf(entries, key) ==
    entries[CHOOSE i \in 1..Len(entries) : entries[i].key = key]

----------------------------------------------------------------------------
(* Claims *)

\* C1: a listed object is in candidates_for_ia if and only if its storage class
\* is STANDARD, it was last modified strictly more than 30 days before now and
\* its size is strictly greater than 131072 bytes; no object of at most 131072
\* bytes is ever an IA candidate.
C1_IaCandidateIff ==
    ScanObserved =>
        \A i \in 1..Len(listed) :
            LET o == listed[i] IN
            /\ (o.key \in Keys(ScanOf.candidates_for_ia))
                   <=> ( /\ StorageClassOf(o) = "STANDARD"
                         /\ now - o.last_modified > 30 * Day
                         /\ o.size > 131072 )
            /\ o.size <= 131072 => o.key \notin Keys(ScanOf.candidates_for_ia)

\* a STANDARD object of exactly 131072 bytes, older than 180 days, was folded:
\* it is a Glacier candidate and no IA candidate
C1_Witness ==
    /\ ScanObserved
    /\ Len(listed) = 1
    /\ listed[1].storage_class = "STANDARD"
    /\ now - listed[1].last_modified = 180 * Day + 1
    /\ listed[1].size = 131072
    /\ ScanOf.candidates_for_ia = <<>>
    /\ Len(ScanOf.candidates_for_glacier) = 1

\* C2: a listed object is in candidates_for_glacier if and only if its storage
\* class is STANDARD or STANDARD_IA and it was last modified strictly more than
\* 180 days before now; its saving is size_gb times (price of its own tier minus
\* price of GLACIER); a STANDARD_IA object is never an IA candidate.
C2_GlacierCandidateIff ==
    ScanObserved =>
        \A i \in 1..Len(listed) :
            LET o  == listed[i]
                sc == StorageClassOf(o)
            IN
            /\ (o.key \in Keys(ScanOf.candidates_for_glacier))
                   <=> ( /\ sc \in {"STANDARD", "STANDARD_IA"}
                         /\ now - o.last_modified > 180 * Day )
            /\ o.key \in Keys(ScanOf.candidates_for_glacier) =>
                   LET e == EntryOf(ScanOf.candidates_for_glacier, o.key) IN
                   /\ e.current_storage_class = sc
                   /\ e.potential_savings_monthly
                          = o.size * (pricing[sc] - pricing["GLACIER"])
            /\ sc = "STANDARD_IA" => o.key \notin Keys(ScanOf.candidates_for_ia)

\* a STANDARD_IA object older than 180 days: Glacier candidate only, priced
\* from STANDARD_IA
C2_Witness ==
    /\ ScanObserved
    /\ Len(listed) = 1
    /\ listed[1].storage_class = "STANDARD_IA"
    /\ listed[1].size = 131073
    /\ now - listed[1].last_modified = 180 * Day + 1
    /\ Len(ScanOf.candidates_for_glacier) = 1
    /\ ScanOf.candidates_for_glacier[1].potential_savings_monthly = 131073 * (1250 - 360)
    /\ ScanOf.candidates_for_ia = <<>>

\* C3: every candidate emitted has a target tier priced no higher than the
\* price used for its current tier, and its potential_savings_monthly is never
\* negative.
C3_SavingsNeverNegative ==
    \A a \in AllAnalyses :
        /\ \A i \in 1..Len(a.candidates_for_ia) :
               /\ pricing["STANDARD_IA"] <= pricing["STANDARD"]
               /\ a.candidates_for_ia[i].potential_savings_monthly >= 0
        /\ \A i \in 1..Len(a.candidates_for_glacier) :
               LET e == a.candidates_for_glacier[i] IN
               /\ pricing["GLACIER"] <= pricing[e.current_storage_class]
               /\ e.potential_savings_monthly >= 0

\* an analysis holds an IA candidate and a Glacier candidate, both with a
\* positive saving
C3_Witness ==
    \E a \in AllAnalyses :
        /\ Len(a.candidates_for_ia) = 1
        /\ a.candidates_for_ia[1].potential_savings_monthly > 0
        /\ Len(a.candidates_for_glacier) = 1
        /\ a.candidates_for_glacier[1].potential_savings_monthly > 0

\* C4: when the object listing of a bucket fails, the returned analysis
\* carries the error and reports zero-valued totals, empty breakdowns and
\* empty candidate lists.
C4_ErrorMeansZeroTotals ==
    \A i \in 1..Len(bucket_analyses) :
        LET a == bucket_analyses[i] IN
        a.error # NoError =>
            /\ a.total_objects = 0
            /\ a.total_size_gb = 0
            /\ a.by_storage_class = EmptyMap
            /\ a.by_prefix = EmptyMap
            /\ a.old_objects = <<>>
            /\ a.candidates_for_ia = <<>>
            /\ a.candidates_for_glacier = <<>>

\* generate_report has run
HasReport == pc = "done"

\* the analyses of a report that have no error
NonErrored ==
    SelectSeq(bucket_analyses, LAMBDA a : a.error = NoError)

\* C5: the fleet summary is the sum over the non-errored analyses only; an
\* analysis with an error contributes zero to every total.
C5_SummaryOverNonErrored ==
    HasReport =>
        /\ report.summary.total_objects
               = SumSeq([i \in 1..Len(NonErrored) |-> NonErrored[i].total_objects])
        /\ report.summary.total_size_gb
               = SumSeq([i \in 1..Len(NonErrored) |-> NonErrored[i].total_size_gb])
        /\ report.summary.potential_ia_savings_monthly
               = SumSeq([i \in 1..Len(NonErrored) |->
                            Savings(NonErrored[i].candidates_for_ia)])
        /\ report.summary.potential_glacier_savings_monthly
               = SumSeq([i \in 1..Len(NonErrored) |->
                            Savings(NonErrored[i].candidates_for_glacier)])

\* C6: a failure while analyzing one bucket never aborts the run: a run over
\* a non-empty bucket list ends only with a report that has one analysis per
\* requested bucket.
C6_FailureNeverAborts ==
    (buckets # <<>> /\ ~ENABLED Next) =>
        /\ HasReport
        /\ Len(bucket_analyses) = Len(buckets)
        /\ Len(multipart_analyses) = Len(buckets)

\* C7: a report lists every requested bucket, in the order asked, one BUCKET
\* entry each with the error annotated when its analysis failed, and
\* summary.total_buckets is the number of requested buckets.
C7_ReportListsEveryBucket ==
    HasReport =>
        /\ report.summary.total_buckets = Len(buckets)
        /\ Len(report.bucket_entries) = Len(buckets)
        /\ \A i \in 1..Len(buckets) :
               /\ report.bucket_entries[i].bucket_name = buckets[i]
               /\ report.bucket_entries[i].error = bucket_analyses[i].error

\* a report over two buckets, one failed and one analyzed
C7_Witness ==
    /\ HasReport
    /\ Len(buckets) = 2
    /\ report.bucket_entries[1].error # NoError
    /\ report.bucket_entries[2].error = NoError
    /\ bucket_analyses[2].total_objects > 0

\* C8: after every add, total_size_gb is the sum of size_gb over by_storage_class
\* and over by_prefix, and total_objects is the sum of count over each.
C8_BreakdownsReconcile ==
    \A a \in AllAnalyses :
        /\ a.total_size_gb
               = SumMap([k \in DOMAIN a.by_storage_class |-> a.by_storage_class[k].size_gb])
        /\ a.total_size_gb
               = SumMap([k \in DOMAIN a.by_prefix |-> a.by_prefix[k].size_gb])
        /\ a.total_objects
               = SumMap([k \in DOMAIN a.by_storage_class |-> a.by_storage_class[k].count])
        /\ a.total_objects
               = SumMap([k \in DOMAIN a.by_prefix |-> a.by_prefix[k].count])

\* two objects folded, in the middle of a scan, that share a prefix and differ
\* in storage class
C8_Witness ==
    /\ pc = "objects_loop"
    /\ analysis.total_objects = 2
    /\ Cardinality(DOMAIN analysis.by_prefix) = 1
    /\ Cardinality(DOMAIN analysis.by_storage_class) = 2
    /\ analysis.total_size_gb > 0

\* C9: a listed object is in old_objects if and only if now minus its
\* last_modified is strictly greater than days_threshold days, whatever its
\* storage class and size.
C9_OldIff ==
    ScanObserved =>
        \A i \in 1..Len(listed) :
            (listed[i].key \in Keys(ScanOf.old_objects))
                <=> (now - listed[i].last_modified > days_threshold * Day)

\* an empty GLACIER object one second over an overridden threshold is old
C9_Witness ==
    /\ ScanObserved
    /\ days_threshold = 200
    /\ Len(listed) = 1
    /\ listed[1].storage_class = "GLACIER"
    /\ listed[1].size = 0
    /\ now - listed[1].last_modified = 200 * Day + 1
    /\ Len(ScanOf.old_objects) = 1

----------------------------------------------------------------------------
(* What an upload scan has produced so far; `uploads_seen` and `now` are     *)
(* those of that scan while it runs and until the next call starts.         *)

MpObserved ==
    \/ pc = "multipart_loop"
    \/ pc \in {"analyze_objects", "generate_report", "done"} /\ multipart_analyses # <<>>

MpOf ==
    IF pc = "multipart_loop" THEN multipart_analysis
    ELSE multipart_analyses[Len(multipart_analyses)]

\* the entries old_uploads holds for an upload id
EntriesOf(m, upload_id) ==
    { i \in 1..Len(m.old_uploads) : m.old_uploads[i].upload_id = upload_id }

Stale(seen) ==
    now - seen.upload.initiated > multipart_days * Day

\* C11: an upload is in old_uploads if and only if now minus its Initiated is
\* strictly greater than the age threshold; every upload listed, old or not,
\* is counted in total_uploads.
C11_OldUploadIff ==
    MpObserved =>
        /\ MpOf.total_uploads = Len(uploads_seen)
        /\ \A i \in 1..Len(uploads_seen) :
               (EntriesOf(MpOf, uploads_seen[i].upload.upload_id) # {})
                   <=> (now - uploads_seen[i].upload.initiated > multipart_days * Day)

\* threshold 7: an upload of 10 days and one of 3 days were listed, both are
\* counted and only the first is in old_uploads
C11_Witness ==
    /\ MpObserved
    /\ multipart_days = 7
    /\ Len(uploads_seen) = 2
    /\ now - uploads_seen[1].upload.initiated = 10 * Day
    /\ now - uploads_seen[2].upload.initiated = 3 * Day
    /\ MpOf.total_uploads = 2
    /\ Len(MpOf.old_uploads) = 1
    /\ MpOf.old_uploads[1].upload_id = uploads_seen[1].upload.upload_id

\* C12: an old upload whose parts cannot be listed is recorded in old_uploads
\* exactly once, and the uploads listed after it are scanned as usual.
C12_UnsizedUploadKept ==
    MpObserved =>
        \A i \in 1..Len(uploads_seen) :
            (Stale(uploads_seen[i]) /\ uploads_seen[i].parts = PartsError) =>
                /\ Cardinality(EntriesOf(MpOf, uploads_seen[i].upload.upload_id)) = 1
                /\ MpOf.total_uploads = Len(uploads_seen)
                /\ \A j \in (i + 1)..Len(uploads_seen) :
                       Stale(uploads_seen[j]) =>
                           Cardinality(EntriesOf(MpOf, uploads_seen[j].upload.upload_id)) = 1

\* list_parts failed on the first old upload; the second was scanned and sized
C12_Witness ==
    /\ pc = "multipart_loop"
    /\ Len(uploads_seen) = 2
    /\ uploads_seen[1].parts = PartsError
    /\ uploads_seen[2].parts # PartsError
    /\ Len(multipart_analysis.old_uploads) = 2
    /\ multipart_analysis.old_uploads[2].size_gb > 0

\* what an old_uploads entry says besides which upload it is and how old
EntryFacts(e) ==
    [f \in DOMAIN e \ {"key", "upload_id", "initiated", "age_days"} |-> e[f]]

\* C13: an entry whose size could not be determined differs, in some field
\* other than those naming the upload and its age, from the entry of an
\* upload whose parts add up to 0 bytes.
C13_UnknownDistinguishable ==
    MpObserved =>
        \A i, j \in 1..Len(uploads_seen) :
            ( /\ Stale(uploads_seen[i]) /\ uploads_seen[i].parts = PartsError
              /\ Stale(uploads_seen[j]) /\ uploads_seen[j].parts # PartsError
              /\ SumSeq(uploads_seen[j].parts) = 0 ) =>
                \A a \in EntriesOf(MpOf, uploads_seen[i].upload.upload_id),
                   b \in EntriesOf(MpOf, uploads_seen[j].upload.upload_id) :
                    EntryFacts(MpOf.old_uploads[a]) # EntryFacts(MpOf.old_uploads[b])

\* the sizes of the old uploads whose parts could be listed
KnownStaleSizes ==
    [i \in 1..Len(uploads_seen) |->
        IF Stale(uploads_seen[i]) /\ uploads_seen[i].parts # PartsError
        THEN SumSeq(uploads_seen[i].parts) ELSE 0]

\* C14: estimated_storage_gb, and the cost derived from it at the STANDARD
\* price, is the sum of the sizes of the old uploads of known size only; an
\* entry of unknown size counts in old_uploads and adds nothing to the
\* estimate, and an upload that is not old adds nothing at all.
C14_EstimateOverKnownStale ==
    MpObserved =>
        /\ MpOf.estimated_storage_gb = SumSeq(KnownStaleSizes)
        /\ MultipartMonthlyCost(MpOf) = SumSeq(KnownStaleSizes) * 2300
        /\ Len(MpOf.old_uploads)
               = Cardinality({i \in 1..Len(uploads_seen) : Stale(uploads_seen[i])})

\* an old upload of unknown size and a recent upload with parts were listed:
\* one entry, nothing estimated
C14_Witness ==
    /\ MpObserved
    /\ Len(uploads_seen) = 2
    /\ Stale(uploads_seen[1]) /\ uploads_seen[1].parts = PartsError
    /\ ~Stale(uploads_seen[2]) /\ uploads_seen[2].parts = <<1024, 512>>
    /\ Len(MpOf.old_uploads) = 1
    /\ MpOf.estimated_storage_gb = 0

\* the rate a storage class is to be priced at: its own, the STANDARD rate
\* when the table has none
RateOf(storage_class) ==
    IF storage_class \in DOMAIN pricing THEN pricing[storage_class]
    ELSE pricing["STANDARD"]

\* C15: pricing a storage class that is not in the table yields the STANDARD
\* rate, in the Glacier saving and in the per-class monthly cost of the report.
C15_UnknownClassAtStandardRate ==
    /\ \A a \in AllAnalyses :
           \A i \in 1..Len(a.candidates_for_glacier) :
               LET e == a.candidates_for_glacier[i] IN
               e.potential_savings_monthly
                   = e.size_gb * (RateOf(e.current_storage_class) - pricing["GLACIER"])
    /\ HasReport =>
           \A i \in 1..Len(bucket_analyses) :
               LET a == bucket_analyses[i] IN
               a.error = NoError =>
                   /\ DOMAIN report.storage_class_costs[i] = DOMAIN a.by_storage_class
                   /\ \A c \in DOMAIN a.by_storage_class :
                          report.storage_class_costs[i][c]
                              = a.by_storage_class[c].size_gb * RateOf(c)

\* a report with a REDUCED_REDUNDANCY line (no such class in the table) priced
\* at 0.023 per GB
C15_Witness ==
    /\ HasReport
    /\ bucket_analyses[1].error = NoError
    /\ "REDUCED_REDUNDANCY" \in DOMAIN report.storage_class_costs[1]
    /\ "REDUCED_REDUNDANCY" \notin DOMAIN pricing
    /\ report.storage_class_costs[1]["REDUCED_REDUNDANCY"] = 5 * 2300

\* C16: each of the five thresholds (stale age, IA age, IA minimum size,
\* Glacier age, multipart age) follows what the caller asks for the run; the
\* defaults 90 / 30 / 131072 / 180 / 7 apply only when nothing is asked.
C16_EveryThresholdOverridable ==
    /\ ScanObserved =>
           \A i \in 1..Len(listed) :
               LET o   == listed[i]
                   age == now - o.last_modified
                   sc  == StorageClassOf(o)
               IN
               /\ (o.key \in Keys(ScanOf.old_objects))
                      <=> (age > config.staleAgeDays * Day)
               /\ (o.key \in Keys(ScanOf.candidates_for_ia))
                      <=> ( /\ sc = "STANDARD"
                            /\ age > config.iaAgeDays * Day
                            /\ o.size > config.iaMinSizeBytes )
               /\ (o.key \in Keys(ScanOf.candidates_for_glacier))
                      <=> ( /\ sc \in {"STANDARD", "STANDARD_IA"}
                            /\ age > config.glacierAgeDays * Day )
    /\ MpObserved =>
           \A i \in 1..Len(uploads_seen) :
               (EntriesOf(MpOf, uploads_seen[i].upload.upload_id) # {})
                   <=> (now - uploads_seen[i].upload.initiated
                            > config.multipartAgeDays * Day)

\* a threshold that is no age
InvalidConfig ==
    config.staleAgeDays < 0 \/ config.multipartAgeDays < 0

\* C17: with an invalid threshold the run fails before any bucket is scanned:
\* no object or upload listing is started and no report is produced.
C17_InvalidConfigFailsFast ==
    InvalidConfig =>
        /\ pc \notin {"objects_loop", "multipart_loop"}
        /\ bucket_analyses = <<>>
        /\ multipart_analyses = <<>>
        /\ ~HasReport

\* C18: an object whose tier already is the target tier is never a candidate
\* for it: a STANDARD_IA object is no IA candidate and a GLACIER object no
\* Glacier candidate, whatever its age and size.
C18_NoCandidateForOwnTier ==
    ScanObserved =>
        /\ \A i \in 1..Len(listed) :
               LET o == listed[i] IN
               /\ StorageClassOf(o) = "STANDARD_IA"
                      => o.key \notin Keys(ScanOf.candidates_for_ia)
               /\ StorageClassOf(o) = "GLACIER"
                      => o.key \notin Keys(ScanOf.candidates_for_glacier)
        /\ \A i \in 1..Len(ScanOf.candidates_for_glacier) :
               ScanOf.candidates_for_glacier[i].current_storage_class # "GLACIER"

\* a STANDARD_IA object above the IA size and age limits has been scanned and
\* is a Glacier candidate only
C18_Witness ==
    /\ ScanObserved
    /\ \E i \in 1..Len(listed) :
           /\ StorageClassOf(listed[i]) = "STANDARD_IA"
           /\ listed[i].size > IaMinSizeBytes
           /\ now - listed[i].last_modified > GlacierAgeDays * Day
           /\ listed[i].key \in Keys(ScanOf.candidates_for_glacier)
    /\ ScanOf.candidates_for_ia = <<>>

\* the part of a key before its last '/', `root` for a key without one
DirOf(key) ==
    IF \A i \in 1..Len(key) : key[i] # Slash THEN Root
    ELSE LET last == CHOOSE j \in 1..Len(key) :
                         key[j] = Slash /\ \A h \in (j + 1)..Len(key) : key[h] # Slash
         IN  SubSeq(key, 1, last - 1)

\* the top-level path segment of a key, `root` for a key without a '/'
TopSegment(key) ==
    IF \A i \in 1..Len(key) : key[i] # Slash THEN Root
    ELSE LET first == CHOOSE j \in 1..Len(key) :
                          key[j] = Slash /\ \A h \in 1..(j - 1) : key[h] # Slash
         IN  SubSeq(key, 1, first - 1)

ListedUnder(p) == { i \in 1..Len(listed) : DirOf(listed[i].key) = p }

\* C19: an object is counted under the entry of everything before the last '/'
\* of its key, under `root` when the key has no '/', and under no other entry:
\* each entry's count is the number of listed objects with that prefix, and
\* the counts add up to the number of objects.
C19_PrefixBeforeLastSlash ==
    ScanObserved =>
        /\ \A i \in 1..Len(listed) : DirOf(listed[i].key) \in DOMAIN ScanOf.by_prefix
        /\ \A p \in DOMAIN ScanOf.by_prefix :
               ScanOf.by_prefix[p].count = Cardinality(ListedUnder(p))
        /\ SumMap([p \in DOMAIN ScanOf.by_prefix |-> ScanOf.by_prefix[p].count])
               = Len(listed)

\* a key without '/' and a nested key have been scanned, one under root and
\* the other under a/b
C19_Witness ==
    /\ ScanObserved
    /\ Len(listed) = 2
    /\ listed[1].key = <<"x">>
    /\ listed[2].key = <<"a", "/", "b", "/", "x">>
    /\ DOMAIN ScanOf.by_prefix = { Root, <<"a", "/", "b">> }
    /\ ScanOf.by_prefix[Root].count = 1
    /\ ScanOf.by_prefix[<<"a", "/", "b">>].count = 1

\* C20: by_prefix is keyed by the top-level path segment: objects whose keys
\* start with the same segment, such as a/b/x and a/c/y, accumulate in one
\* entry.
C20_KeyedByTopSegment ==
    ScanObserved =>
        \A i \in 1..Len(listed) :
            LET p == TopSegment(listed[i].key) IN
            /\ p \in DOMAIN ScanOf.by_prefix
            /\ ScanOf.by_prefix[p].count
                   = Cardinality({ j \in 1..Len(listed) : TopSegment(listed[j].key) = p })

\* C20, amended: by_prefix is keyed by the whole path before the last '/': its
\* entries are exactly the paths of the listed keys, two objects accumulate in
\* the same entry only when these paths are equal (a/b/x and a/c/y go to a/b
\* and a/c), and an entry's size_gb is the sum over the objects of its path.
C20_KeyedByFullPath ==
    ScanObserved =>
        /\ DOMAIN ScanOf.by_prefix = { DirOf(listed[i].key) : i \in 1..Len(listed) }
        /\ \A p \in DOMAIN ScanOf.by_prefix :
               ScanOf.by_prefix[p].size_gb
                   = SumSeq([i \in 1..Len(listed) |->
                                IF i \in ListedUnder(p) THEN SizeGb(listed[i].size) ELSE 0])

\* a/b/x and a/c/y have been scanned and sit in two entries
C20_Witness ==
    /\ ScanObserved
    /\ { listed[i].key : i \in 1..Len(listed) }
           = { <<"a", "/", "b", "/", "x">>, <<"a", "/", "c", "/", "y">> }
    /\ DOMAIN ScanOf.by_prefix = { <<"a", "/", "b">>, <<"a", "/", "c">> }
    /\ \A p \in DOMAIN ScanOf.by_prefix : ScanOf.by_prefix[p].count = 1

\* every returned analysis is still what it was when it was returned
ReturnedUnchanged ==
    /\ Len(bucket_analyses') >= Len(bucket_analyses)
    /\ \A i \in 1..Len(bucket_analyses) : bucket_analyses'[i] = bucket_analyses[i]

\* a bucket's analysis is returned only by the call that built it, and the
\* report exists only once every bucket has both its analyses
ScansPrecedeReport ==
    /\ Len(bucket_analyses) <= Len(buckets)
    /\ Len(multipart_analyses) <= Len(bucket_analyses)
    /\ pc = "objects_loop" => Len(bucket_analyses) = bi - 1
    /\ pc \in {"generate_report", "done"} =>
           /\ Len(bucket_analyses) = Len(buckets)
           /\ Len(multipart_analyses) = Len(buckets)
           /\ analysis = None
           /\ multipart_analysis = None
    /\ pc # "done" => report = NoReport

\* C21: every add to a bucket's analysis precedes its return and nothing
\* changes it afterwards: the report is computed only after the object scan
\* and the multipart scan of every requested bucket have completed, and no step
\* of the run changes an analysis that analyze_bucket_objects has returned.
C21_ImmutableOnceReturned ==
    []ScansPrecedeReport /\ [][ReturnedUnchanged]_vars

\* the second bucket's scan has folded an object after the first bucket's
\* analysis, holding an object itself, was returned
C21_Witness ==
    /\ pc = "objects_loop"
    /\ bi = 2
    /\ Len(bucket_analyses) = 1
    /\ bucket_analyses[1].total_objects = 1
    /\ analysis.total_objects = 1

\* what the loop body records for one object when it is the only one scanned
Classify(obj, n, threshold) == AddObject(NewAnalysis("b1"), obj, n, threshold)

EntriesFor(entries, key) == SelectSeq(entries, LAMBDA e : e.key = key)

\* in the scan observed, each object's entries are those of classifying it alone
ClassifiedAlone ==
    ScanObserved =>
        \A i \in 1..Len(listed) :
            LET o == listed[i]
                c == Classify(o, now, days_threshold)
            IN
            /\ EntriesFor(ScanOf.old_objects, o.key) = c.old_objects
            /\ EntriesFor(ScanOf.candidates_for_ia, o.key) = c.candidates_for_ia
            /\ EntriesFor(ScanOf.candidates_for_glacier, o.key) = c.candidates_for_glacier

\* the loop keeps the `now` it started with
OneNowPerScan ==
    (pc = "objects_loop" /\ pc' \in {"objects_loop", "analyze_multipart"}) => now' = now

\* C22: what a scan records for an object (membership of the three lists, age
\* and saving) is a function of the object, now, the thresholds and the price
\* table alone: it is what classifying that object by itself gives, whatever
\* was scanned before it, and one now serves every object of the scan.
C22_ClassificationPure ==
    []ClassifiedAlone /\ [][OneNowPerScan]_vars

\* a STANDARD_IA object in no list but old_objects was scanned first, then a
\* STANDARD object exactly 180 days old, which is an IA and no Glacier candidate
C22_Witness ==
    /\ pc = "objects_loop"
    /\ Len(listed) = 2
    /\ StorageClassOf(listed[1]) = "STANDARD_IA"
    /\ listed[2].storage_class = "STANDARD"
    /\ listed[2].size = IaMinSizeBytes + 1
    /\ now - listed[2].last_modified = GlacierAgeDays * Day
    /\ Keys(analysis.candidates_for_ia) = { listed[2].key }
    /\ analysis.candidates_for_glacier = <<>>
    /\ Len(analysis.old_objects) = 2

\* the S3 operations that only read
ReadOperations == {"ListBuckets", "ListObjects", "ListMultipartUploads", "ListParts"}

\* the S3 operations that move an object to another tier, delete objects or
\* abort an upload
WriteOperations ==
    {"CopyObject", "PutObject", "PutBucketLifecycleConfiguration",
     "DeleteObject", "DeleteObjects", "AbortMultipartUpload"}

\* C23: across a whole run no operation that changes storage state is issued
\* (no tier transition, no deletion, no multipart abort): every S3 operation of
\* the run is a listing.
C23_OnlyRecommends ==
    /\ s3_calls \subseteq ReadOperations
    /\ s3_calls \cap WriteOperations = {}

\* a finished run that listed the buckets, found a Glacier candidate and a
\* stale upload, wrote its report, and issued its four listings
C23_Witness ==
    /\ HasReport
    /\ s3_calls = ReadOperations
    /\ bucket_analyses[1].candidates_for_glacier # <<>>
    /\ multipart_analyses[1].old_uploads # <<>>

\* a Python runtime whose version major.minor is 3.9 or below
Python39OrBelow(runtime) ==
    /\ StartsWith(runtime, PythonPrefix)
    /\ LET version == SubSeq(runtime, Len(PythonPrefix) + 1, Len(runtime)) IN
       /\ Cardinality(Dots(version)) = 1
       /\ \A i \in 1..Len(version) : IsDigit(version[i]) \/ version[i] = "."
       /\ LET d     == CHOOSE i \in Dots(version) : TRUE
              major == SubSeq(version, 1, d - 1)
              minor == SubSeq(version, d + 1, Len(version))
          IN  /\ major # <<>>
              /\ minor # <<>>
              /\ \/ ToInt(major) < 3
                 \/ ToInt(major) = 3 /\ ToInt(minor) <= 9

\* C24: a function is counted in python_39_below and has a row in the results
\* if and only if its runtime is a Python runtime of version 3.9 or below;
\* python3.10, python3.11, python3.12 and other runtimes never are.
C24_CountsOnly39OrBelow ==
    pc = "lambda_done" =>
        LET below == { i \in 1..Len(functions) : Python39OrBelow(RuntimeOf(functions[i])) }
        IN  /\ stats.python_39_below = Cardinality(below)
            /\ { results[i].FunctionName : i \in 1..Len(results) }
                   = { functions[i].FunctionName : i \in below }

\* the positions of the log that hold a call of op for the instance id
CallsAt(op, id) ==
    { k \in 1..Len(ec2_calls) : ec2_calls[k].op = op /\ ec2_calls[k].id = id }

\* stop_instances and the instance_stopped wait of id succeeded before position k
StoppedBefore(id, k) ==
    \E j \in 1..(k - 2) :
        /\ ec2_calls[j] = Call("stop_instances", id, TRUE)
        /\ ec2_calls[j + 1] = Call("wait_instance_stopped", id, TRUE)

\* C25: no modify_instance_attribute, modify_volume or start_instances call is
\* issued for an instance unless its stop_instances call and its
\* instance_stopped wait succeeded before; when either fails, process_instance
\* returns False and no further call is made for the instance.
C25_NothingBeforeStopped ==
    /\ \A k \in 1..Len(ec2_calls) :
           ec2_calls[k].op \in {"modify_instance_attribute", "describe_volumes",
                                "modify_volume", "start_instances"}
               => StoppedBefore(ec2_calls[k].id, k)
    /\ \A k \in 1..Len(ec2_calls) :
           ( /\ ec2_calls[k].op \in {"stop_instances", "wait_instance_stopped"}
             /\ ~ec2_calls[k].ok )
               => /\ \A h \in (k + 1)..Len(ec2_calls) : ec2_calls[h].id # ec2_calls[k].id
                  /\ \E i \in 1..Len(processed) :
                         /\ instances_to_process[i].InstanceId = ec2_calls[k].id
                         /\ ~processed[i]

\* an instance was stopped, its wait succeeded, and its type and a volume
\* were modified
C25_Witness ==
    /\ \E k \in 1..Len(ec2_calls) : ec2_calls[k].op = "modify_instance_attribute"
    /\ \E k \in 1..Len(ec2_calls) :
           /\ ec2_calls[k].op = "modify_volume"
           /\ StoppedBefore(ec2_calls[k].id, k)

\* the stop of the instance succeeded: the call and the wait
StoppedOk(id) ==
    \E j \in 1..(Len(ec2_calls) - 1) :
        /\ ec2_calls[j] = Call("stop_instances", id, TRUE)
        /\ ec2_calls[j + 1] = Call("wait_instance_stopped", id, TRUE)

StartAttempted(id) == CallsAt("start_instances", id) # {}

StartedOk(id) ==
    \E j \in 1..(Len(ec2_calls) - 1) :
        /\ ec2_calls[j] = Call("start_instances", id, TRUE)
        /\ ec2_calls[j + 1] = Call("wait_instance_running", id, TRUE)

\* process_instance has returned for each instance it stopped, having
\* attempted the start, and returned True exactly for those stopped and started
ReturnedAfterStart ==
    \A i \in 1..Len(processed) :
        LET id == instances_to_process[i].InstanceId IN
        /\ StoppedOk(id) => StartAttempted(id)
        /\ processed[i] <=> (StoppedOk(id) /\ StartedOk(id))

\* C26: once an instance has been stopped, start_instances is attempted for it
\* afterwards, also when the type change or the volume conversion fails with
\* ClientError; process_instance never returns leaving it stopped without a
\* start attempt, and the instance counts as processed exactly when both the
\* stop and the start succeeded.
C26_StartAlwaysAttempted ==
    /\ []ReturnedAfterStart
    /\ [](success_count = Cardinality({ i \in 1..Len(processed) : processed[i] }))
    /\ \A i \in 1..Len(InstanceIds) :
           StoppedOk(InstanceIds[i]) ~> StartAttempted(InstanceIds[i])

\* the type change and the volume conversion of a stopped instance both
\* failed, the start then succeeded and the instance counts as processed
C26_Witness ==
    /\ pc = "mig_done"
    /\ \E k \in 1..Len(ec2_calls) :
           ec2_calls[k].op = "modify_instance_attribute" /\ ~ec2_calls[k].ok
    /\ \E k \in 1..Len(ec2_calls) : ec2_calls[k].op = "modify_volume" /\ ~ec2_calls[k].ok
    /\ processed = <<TRUE>>
    /\ success_count = 1

\* no Name tag, a name that does not start with branch, or an excluded host
NotToMigrate(instance) ==
    \/ ~instance.HasTags
    \/ \A t \in 1..Len(instance.Tags) : instance.Tags[t].Key # "Name"
    \/ \E t \in 1..Len(instance.Tags) :
           /\ instance.Tags[t].Key = "Name"
           /\ \/ Len(instance.Tags[t].Value) < Len(PREFIX)
              \/ SubSeq(instance.Tags[t].Value, 1, Len(PREFIX)) # PREFIX
              \/ instance.Tags[t].Value \in ExcludedHosts

\* C27: an instance without a Name tag, with a name that does not start with
\* branch, or named as one of the three excluded hosts is never stopped,
\* modified or started: process_instance returns False for it and no EC2 call
\* carries its id.
C27_SkippedUntouched ==
    \A i \in 1..Len(instances_to_process) :
        NotToMigrate(instances_to_process[i]) =>
            /\ \A k \in 1..Len(ec2_calls) :
                   ec2_calls[k].id # instances_to_process[i].InstanceId
            /\ i <= Len(processed) => ~processed[i]
            /\ ~(ii = i /\ pc \notin {"mig_next", "mig_done"})

\* branch2.testtss.com has been taken by the loop and returned False with no call
C27_Witness ==
    /\ pc = "mig_done"
    /\ Len(instances_to_process) = 1
    /\ get_instance_name(instances_to_process[1]) \in ExcludedHosts
    /\ processed = <<FALSE>>
    /\ ec2_calls = <<>>

\* the listed objects that came without a storage class
Unclassed == { i \in 1..Len(listed) : listed[i].storage_class \in {None, ""} }

\* C28: an object whose storage class is missing (None or empty) is treated as
\* STANDARD throughout the scan: it is counted under the STANDARD entry of
\* by_storage_class, and it is an IA and a Glacier candidate under the STANDARD
\* rules, its Glacier saving computed from the STANDARD price.
C28_MissingClassIsStandard ==
    ScanObserved =>
        /\ Unclassed # {} =>
               /\ "STANDARD" \in DOMAIN ScanOf.by_storage_class
               /\ ScanOf.by_storage_class["STANDARD"].count
                      = Cardinality({ i \in 1..Len(listed) :
                                         listed[i].storage_class \in {None, "", "STANDARD"} })
        /\ DOMAIN ScanOf.by_storage_class \cap {None, ""} = {}
        /\ \A i \in Unclassed :
               LET o   == listed[i]
                   age == now - o.last_modified
               IN
               /\ (o.key \in Keys(ScanOf.candidates_for_ia))
                      <=> (age > 30 * Day /\ o.size > 131072)
               /\ (o.key \in Keys(ScanOf.candidates_for_glacier)) <=> (age > 180 * Day)
               /\ o.key \in Keys(ScanOf.candidates_for_glacier) =>
                      LET e == EntryOf(ScanOf.candidates_for_glacier, o.key) IN
                      /\ e.current_storage_class = "STANDARD"
                      /\ e.potential_savings_monthly
                             = o.size * (pricing["STANDARD"] - pricing["GLACIER"])

\* an object without storage class, above the IA size and older than 180 days,
\* is counted as STANDARD and is a candidate for both tiers
C28_Witness ==
    /\ ScanObserved
    /\ Len(listed) = 1
    /\ listed[1].storage_class = None
    /\ DOMAIN ScanOf.by_storage_class = {"STANDARD"}
    /\ Len(ScanOf.candidates_for_ia) = 1
    /\ Len(ScanOf.candidates_for_glacier) = 1
    /\ ScanOf.candidates_for_glacier[1].potential_savings_monthly > 0

\* C29: suggest_rightsize never returns a negative saving: the saving is zero
\* unless the average CPU is below 25 and the type has an entry in the
\* downsize map, and then the recommended type is priced below the current
\* one by get_instance_pricing, so the saving is strictly positive.
C29_SavingsNeverNegative ==
    pc = "rightsize_returned" =>
        /\ suggestion.potential_savings >= 0
        /\ IF cpu_avg < 2500 /\ instance_type \in DOMAIN downsize_map
           THEN /\ suggestion.new_type = downsize_map[instance_type]
                /\ get_instance_pricing(suggestion.new_type)
                       < get_instance_pricing(instance_type)
                /\ suggestion.potential_savings > 0
           ELSE suggestion.potential_savings = 0

\* a c5.large at 9.99 % is sent to t3.medium, the one step that leaves the
\* family, with a saving of (0.085 - 0.0416) * 730 a month
C29_Witness ==
    /\ pc = "rightsize_returned"
    /\ instance_type = "c5.large"
    /\ cpu_avg = 999
    /\ suggestion.new_type = "t3.medium"
    /\ suggestion.potential_savings = (850 - 416) * 730

====
